---------------------------- MODULE Spec2Model ----------------------------
(***************************************************************************)
(* Model of the multi-instance file provider service                       *)
(* (src/internal/provider/service.go, second package body, lines 328-977): *)
(* the instance registry (configs, directoryRegistry, initOrder), the      *)
(* Init / Shutdown / Fetch / Info / Health handlers and the RWMutex that   *)
(* guards them.                                                            *)
(*                                                                         *)
(* Strings are TLA+ strings; the path functions of the Go library          *)
(* (filepath.Clean, Join, Dir, Abs, IsAbs, strings.HasSuffix, TrimSuffix)  *)
(* are computed character by character.  The file system is a fixed        *)
(* table (DirListing, Symlinks); a transient I/O failure is an input of    *)
(* each call.                                                              *)
(***************************************************************************)
EXTENDS Integers, Sequences, FiniteSets, TLC

VARIABLES
    configs,            \* s.configs: alias -> instanceConfig
    directoryRegistry,  \* s.directoryRegistry: canonical path -> alias
    initOrder,          \* s.initOrder: sequence of aliases
    last,               \* the call that has just returned: request, response and
                        \* the registry on its entry; NoCall once the client took it
    born,               \* history: alias -> rank of its commit among the registered
    mu,                 \* the RWMutex: its writer and its readers
    pc                  \* concurrent service: each client's call and position in it

vars == <<configs, directoryRegistry, initOrder, last, born, mu, pc>>

(***************************************************************************)
(* Maps with a dynamic key set (Go maps).                                  *)
(***************************************************************************)
EmptyMap == [k \in {} |-> 0]

MapPut(f, k, v) == [x \in (DOMAIN f) \cup {k} |-> IF x = k THEN v ELSE f[x]]

MapDelete(f, k) == [x \in (DOMAIN f) \ {k} |-> f[x]]

(***************************************************************************)
(* strings and path/filepath (Unix).                                       *)
(***************************************************************************)
CharAt(s, i) == SubSeq(s, i, i)

HasPrefix(s, p) == Len(s) >= Len(p) /\ SubSeq(s, 1, Len(p)) = p

HasSuffix(s, suf) == Len(s) >= Len(suf) /\ SubSeq(s, Len(s) - Len(suf) + 1, Len(s)) = suf

TrimSuffix(s, suf) == IF HasSuffix(s, suf) THEN SubSeq(s, 1, Len(s) - Len(suf)) ELSE s

\* strings.LastIndex(s, "/"), 1-based; 0 when there is none
RECURSIVE LastSlashFrom(_, _)
LastSlashFrom(s, i) ==
    IF i = 0 THEN 0
    ELSE IF CharAt(s, i) = "/" THEN i
    ELSE LastSlashFrom(s, i - 1)

LastSlash(s) == LastSlashFrom(s, Len(s))

\* strings.Split(s, "/") as a sequence of components
RECURSIVE SplitFrom(_, _, _)
SplitFrom(s, i, cur) ==
    IF i > Len(s) THEN <<cur>>
    ELSE IF CharAt(s, i) = "/" THEN <<cur>> \o SplitFrom(s, i + 1, "")
    ELSE SplitFrom(s, i + 1, cur \o CharAt(s, i))

SplitPath(s) == SplitFrom(s, 1, "")

\* strings.Join(elems, "/")
RECURSIVE JoinSlash(_)
JoinSlash(elems) ==
    IF Len(elems) = 0 THEN ""
    ELSE IF Len(elems) = 1 THEN elems[1]
    ELSE elems[1] \o "/" \o JoinSlash(Tail(elems))

\* the component stack of filepath.Clean: "" and "." dropped, ".." pops
RECURSIVE CleanStack(_, _, _)
CleanStack(comps, stack, rooted) ==
    IF Len(comps) = 0 THEN stack
    ELSE IF Head(comps) = "" \/ Head(comps) = "."
    THEN CleanStack(Tail(comps), stack, rooted)
    ELSE IF Head(comps) # ".."
    THEN CleanStack(Tail(comps), Append(stack, Head(comps)), rooted)
    ELSE IF Len(stack) > 0 /\ stack[Len(stack)] # ".."
    THEN CleanStack(Tail(comps), SubSeq(stack, 1, Len(stack) - 1), rooted)
    ELSE IF rooted THEN CleanStack(Tail(comps), stack, rooted)
    ELSE CleanStack(Tail(comps), Append(stack, ".."), rooted)

\* filepath.Clean's result from the component stack
CleanJoin(stack, rooted) ==
    IF rooted THEN "/" \o JoinSlash(stack)
    ELSE IF Len(stack) = 0 THEN "."
    ELSE JoinSlash(stack)

Clean(p) ==
    IF p = "" THEN "."
    ELSE CleanJoin(CleanStack(SplitPath(p), << >>, HasPrefix(p, "/")), HasPrefix(p, "/"))

IsAbs(p) == HasPrefix(p, "/")

Dir(p) == Clean(SubSeq(p, 1, LastSlash(p)))

\* filepath.Join of two elements
Join(a, b) ==
    IF a # "" THEN Clean(a \o "/" \o b)
    ELSE IF b # "" THEN Clean(b)
    ELSE ""


(***************************************************************************)
(* The environment: working directory and file system.  Bounds of the      *)
(* model select how many aliases and which call inputs are explored.       *)
(***************************************************************************)
MaxAliases == 3

AliasPool == <<"a", "b", "c", "d", "e">>

\* request aliases: the empty alias and MaxAliases distinct names
Aliases == {""} \cup {AliasPool[i] : i \in 1..MaxAliases}

Cwd == "/w"

\* directories and their entries as os.ReadDir returns them (sorted by name)
DirListing ==
    [p \in {"/", "/w", "/w/d1", "/w/d1/s.csl", "/w/d2", "/w/e"} |->
        CASE p = "/" -> << [name |-> "w", isDir |-> TRUE] >>
          [] p = "/w" -> << [name |-> "d1", isDir |-> TRUE],
                            [name |-> "d2", isDir |-> TRUE],
                            [name |-> "e", isDir |-> TRUE],
                            [name |-> "f", isDir |-> FALSE],
                            [name |-> "l1", isDir |-> FALSE] >>
          [] p = "/w/d1" -> << [name |-> "a.csl", isDir |-> FALSE],
                               [name |-> "b.csl", isDir |-> FALSE],
                               [name |-> "n.txt", isDir |-> FALSE],
                               [name |-> "s.csl", isDir |-> TRUE] >>
          [] p = "/w/d1/s.csl" -> << >>
          [] p = "/w/d2" -> << [name |-> "a.csl", isDir |-> FALSE],
                               [name |-> "c.csl", isDir |-> FALSE] >>
          [] p = "/w/e" -> << [name |-> "n.txt", isDir |-> FALSE] >>]

\* symbolic links: path -> target
Symlinks == [p \in {"/w/l1"} |-> "/w/d1"]

\* the path the kernel resolves a name to, before following links
AbsOf(p) == IF IsAbs(p) THEN Clean(p) ELSE Join(Cwd, p)

\* TRUE iff the clean absolute path p names an entry of its parent directory
EntryOf(parent, p) ==
    /\ parent \in DOMAIN DirListing
    /\ \E i \in 1..Len(DirListing[parent]) : Join(parent, DirListing[parent][i].name) = p

EntryExists(p) == p = "/" \/ EntryOf(Dir(p), p)

\* the last component of the clean path p
Base(p) == SubSeq(p, LastSlash(p) + 1, Len(p))

\* the path a link at p with target t leads to
LinkTarget(p, t) == IF IsAbs(t) THEN t ELSE Join(Dir(p), t)

\* filepath.EvalSymlinks without the final Clean, and the path resolution
\* of the kernel: the path is walked component by component and a link is
\* followed wherever it stands; a path without links is returned as given
\* (a relative path stays relative).
RECURSIVE WalkSymlinks(_)
\* the walk at p, whose parent directory is free of links; abs is p made
\* absolute; a missing entry is ENOENT below a directory and ENOTDIR (notDir)
\* below a file
WalkSymlinksAt(p, abs) ==
    IF abs \in DOMAIN Symlinks
    THEN WalkSymlinks(LinkTarget(p, Symlinks[abs]))
    ELSE IF EntryExists(abs) THEN [err |-> FALSE, path |-> p]
    ELSE [err |-> TRUE, path |-> "", notDir |-> Dir(abs) \notin DOMAIN DirListing]

\* the walk at the component name of the directory resolved as parent
WalkSymlinksUnder(parent, name) ==
    IF parent.err THEN parent
    ELSE WalkSymlinksAt(Join(parent.path, name), AbsOf(Join(parent.path, name)))

WalkSymlinks(p) ==
    IF p \in {"", ".", "/"} THEN [err |-> FALSE, path |-> p]
    ELSE WalkSymlinksUnder(WalkSymlinks(Dir(p)), Base(p))

CleanResolved(r) == IF r.err THEN r ELSE [err |-> FALSE, path |-> Clean(r.path)]

EvalSymlinks(p, fault) ==
    IF fault = "evalsymlinks" THEN [err |-> TRUE, path |-> ""]
    ELSE CleanResolved(WalkSymlinks(p))

StatResolved(r) ==
    IF r.err THEN [err |-> IF r.notDir THEN "other" ELSE "notexist", isDir |-> FALSE]
    ELSE [err |-> "none", isDir |-> AbsOf(r.path) \in DOMAIN DirListing]

\* os.Stat: follows links; err is "none", "notexist" or "other"
Stat(p, fault) ==
    IF fault = "stat" THEN [err |-> "other", isDir |-> FALSE]
    ELSE StatResolved(WalkSymlinks(p))

\* os.ReadDir of the path that resolves as r
ReadDirResolved(r) ==
    IF r.err \/ AbsOf(r.path) \notin DOMAIN DirListing
    THEN [err |-> TRUE, entries |-> << >>]
    ELSE [err |-> FALSE, entries |-> DirListing[AbsOf(r.path)]]

\* os.ReadDir: follows links
ReadDir(p, fault) ==
    IF fault = "readdir" THEN [err |-> TRUE, entries |-> << >>]
    ELSE ReadDirResolved(WalkSymlinks(p))

\* filepath.Abs: fails only when the working directory cannot be read
Abs(p, fault) ==
    IF IsAbs(p) THEN [err |-> FALSE, path |-> Clean(p)]
    ELSE IF fault = "getwd" THEN [err |-> TRUE, path |-> ""]
    ELSE [err |-> FALSE, path |-> Join(Cwd, p)]

Faults == {"none", "getwd", "stat", "evalsymlinks", "readdir"}

(***************************************************************************)
(* Requests and responses.                                                 *)
(***************************************************************************)
\* a config value as structpb delivers it: a string or a number (float64)
StringValue(v) == [t |-> "string", v |-> v]

NumberValue(n) == [t |-> "float64", v |-> n]

\* the raw directory strings offered to Init
RawDirs == {"/w/d1", "d1", "/w/l1", "/w/d2", "/w/e", "/w/f", "/w/nx"}

\* req.Config.AsMap(): no key, a non-string directory, a string directory,
\* and a string directory beside an unknown key
InitConfigs ==
    {EmptyMap, [k \in {"directory"} |-> NumberValue("12345")]}
    \cup {[k \in {"directory"} |-> StringValue(d)] : d \in RawDirs}
    \cup {[k \in {"directory", "mode"} |->
              IF k = "directory" THEN StringValue("/w/d2") ELSE StringValue("ro")]}

\* req.SourceFilePath: absent, absolute, relative
SourceFilePaths == {"", "/w/m.csl", "m.csl"}

\* the requests offered to Init; a source file path is offered with the
\* relative directories, the only ones that are resolved against it
InitRequests ==
    {r \in [alias : Aliases, config : InitConfigs, sourceFilePath : SourceFilePaths] :
        \/ r.sourceFilePath = ""
        \/ /\ "directory" \in DOMAIN r.config
           /\ r.config["directory"].t = "string"
           /\ ~IsAbs(r.config["directory"].v)}

\* a gRPC status: code, the format string and its arguments in order, each
\* argument as the text it is formatted to
Status(code, fmt, args) == [code |-> code, fmt |-> fmt, args |-> args]

OkStatus == Status("OK", "", << >>)

RolledBackSuffix == "; rolled back all %d instance(s)"

(***************************************************************************)
(* The registry: the three structures of FileProviderService.             *)
(***************************************************************************)
Registry(c, d, o) == [configs |-> c, directoryRegistry |-> d, initOrder |-> o]

\* NewFileProviderService
EmptyRegistry == Registry(EmptyMap, EmptyMap, << >>)

\* one iteration of rollbackAll's loop, for initOrder[i]
RollbackAlias(s, alias) ==
    IF alias \in DOMAIN s.configs
    THEN Registry(MapDelete(s.configs, alias),
                  IF s.configs[alias].directory # ""
                  THEN MapDelete(s.directoryRegistry, s.configs[alias].directory)
                  ELSE s.directoryRegistry,
                  s.initOrder)
    ELSE s

RollbackOne(s, i) == RollbackAlias(s, s.initOrder[i])

\* mutant: the loop stops before the instance registered first
RECURSIVE RollbackFrom_StopsAtFirst(_, _)
RollbackFrom_StopsAtFirst(s, i) ==
    IF i <= 1 THEN s ELSE RollbackFrom_StopsAtFirst(RollbackOne(s, i), i - 1)

\* rollbackAll's loop from index i down to 1
RECURSIVE RollbackFrom(_, _)
RollbackFrom(s, i) ==
    IF i = 0 THEN s ELSE RollbackFrom(RollbackOne(s, i), i - 1)

\* rollbackAll after its loop: "Clear init order"
ClearInitOrder(r) == Registry(r.configs, r.directoryRegistry, << >>)

\* mutant: the loop undoes only the instance registered last
rollbackAll_LastOnly(s) == ClearInitOrder(RollbackOne(s, Len(s.initOrder)))

rollbackAll(s) == ClearInitOrder(RollbackFrom(s, Len(s.initOrder)))

\* mutant: the failure is reported with its count, the registry is kept
FailWithRollback_KeepsRegistry(s, code, fmtRolledBack, argsRolledBack, fmtPlain, argsPlain) ==
    IF Len(s.initOrder) > 0
    THEN [reg |-> s,
          status |-> Status(code, fmtRolledBack,
                            Append(argsRolledBack, ToString(Len(s.initOrder))))]
    ELSE [reg |-> s, status |-> Status(code, fmtPlain, argsPlain)]

\* mutant: the count is read after rollbackAll has cleared initOrder
FailWithRollback_CountAfter(s, code, fmtRolledBack, argsRolledBack, fmtPlain, argsPlain) ==
    IF Len(s.initOrder) > 0
    THEN [reg |-> rollbackAll(s),
          status |-> Status(code, fmtRolledBack,
                            Append(argsRolledBack, ToString(Len(rollbackAll(s).initOrder))))]
    ELSE [reg |-> s, status |-> Status(code, fmtPlain, argsPlain)]

\* the pattern at every failing check of Init but one: roll back and report
\* the count when instances exist, else report the plain error
FailWithRollback(s, code, fmtRolledBack, argsRolledBack, fmtPlain, argsPlain) ==
    IF Len(s.initOrder) > 0
    THEN [reg |-> rollbackAll(s),
          status |-> Status(code, fmtRolledBack,
                            Append(argsRolledBack, ToString(Len(s.initOrder))))]
    ELSE [reg |-> s, status |-> Status(code, fmtPlain, argsPlain)]

\* mutant: a duplicate alias is rejected without the rollback
FailDuplicateAlias_NoRollback(s, alias) ==
    [reg |-> s,
     status |-> Status("FailedPrecondition",
                       "alias %q: provider instance already initialized", <<alias>>)]

\* Init, "Check if alias already exists": the alias is registered
FailDuplicateAlias(s, alias) ==
    FailWithRollback(s, "FailedPrecondition",
        "alias %q: provider instance already initialized" \o RolledBackSuffix, <<alias>>,
        "alias %q: provider instance already initialized", <<alias>>)

DuplicateDirectoryFmt ==
    "directory %q already registered by provider instance %q, cannot register as %q"

\* mutant: the duplicate-directory check rolls back like the other checks
FailDuplicateDirectory_Rollback(s, canonicalPath, existingAlias, alias) ==
    [reg |-> rollbackAll(s),
     status |-> Status("FailedPrecondition", DuplicateDirectoryFmt,
                       <<canonicalPath, existingAlias, alias>>)]

\* the duplicate-directory check: a validation error, no rollback
FailDuplicateDirectory(s, canonicalPath, existingAlias, alias) ==
    [reg |-> s,
     status |-> Status("FailedPrecondition", DuplicateDirectoryFmt,
                       <<canonicalPath, existingAlias, alias>>)]

\* mutant: the loop does not skip the entries that are directories
RECURSIVE EnumerateFrom_KeepsDirectories(_, _, _, _)
EnumerateFrom_KeepsDirectories(dirPath, entries, i, cslFiles) ==
    IF i > Len(entries) THEN [err |-> "", cslFiles |-> cslFiles]
    ELSE IF ~HasSuffix(entries[i].name, ".csl")
    THEN EnumerateFrom_KeepsDirectories(dirPath, entries, i + 1, cslFiles)
    ELSE IF TrimSuffix(entries[i].name, ".csl") \in DOMAIN cslFiles
    THEN [err |-> "duplicate file base name %q in directory %q", cslFiles |-> EmptyMap]
    ELSE EnumerateFrom_KeepsDirectories(dirPath, entries, i + 1,
                       MapPut(cslFiles, TrimSuffix(entries[i].name, ".csl"),
                              Join(dirPath, entries[i].name)))

\* the loop of enumerateCSLFiles over entries i..Len(entries)
RECURSIVE EnumerateFrom(_, _, _, _)
EnumerateFrom(dirPath, entries, i, cslFiles) ==
    IF i > Len(entries) THEN [err |-> "", cslFiles |-> cslFiles]
    ELSE IF entries[i].isDir THEN EnumerateFrom(dirPath, entries, i + 1, cslFiles)
    ELSE IF ~HasSuffix(entries[i].name, ".csl")
    THEN EnumerateFrom(dirPath, entries, i + 1, cslFiles)
    ELSE IF TrimSuffix(entries[i].name, ".csl") \in DOMAIN cslFiles
    THEN [err |-> "duplicate file base name %q in directory %q", cslFiles |-> EmptyMap]
    ELSE EnumerateFrom(dirPath, entries, i + 1,
                       MapPut(cslFiles, TrimSuffix(entries[i].name, ".csl"),
                              Join(dirPath, entries[i].name)))

\* mutant: a directory without .csl files gives an empty index
EnumerateResult_AllowsEmpty(r) == r

\* enumerateCSLFiles after its loop: an empty map is an error
EnumerateResult(r) ==
    IF r.err # "" THEN r
    ELSE IF Cardinality(DOMAIN r.cslFiles) = 0
    THEN [err |-> "no .csl files found in directory %q", cslFiles |-> EmptyMap]
    ELSE r

EnumerateEntries(dirPath, rd) ==
    IF rd.err THEN [err |-> "failed to read directory %q: %w", cslFiles |-> EmptyMap]
    ELSE EnumerateResult(EnumerateFrom(dirPath, rd.entries, 1, EmptyMap))

enumerateCSLFiles(dirPath, fault) == EnumerateEntries(dirPath, ReadDir(dirPath, fault))

\* canonicalizePath after filepath.EvalSymlinks
CanonicalOf(resolved) ==
    IF resolved.err THEN [err |-> TRUE, path |-> ""]
    ELSE [err |-> FALSE, path |-> Clean(resolved.path)]

canonicalizePath(path, fault) == CanonicalOf(EvalSymlinks(path, fault))

\* Init, "Resolve to absolute path": relative to the source file's
\* directory when one is given, else filepath.Abs
ResolveAbsPath(dirStr, sourceFilePath, fault) ==
    IF ~IsAbs(dirStr) /\ sourceFilePath # ""
    THEN [err |-> FALSE, path |-> Join(Dir(sourceFilePath), dirStr)]
    ELSE Abs(dirStr, fault)

\* mutant: the commit does not append the alias to initOrder
CommitInstance_NoOrder(s, alias, canonicalPath, cslFiles) ==
    Registry(MapPut(s.configs, alias,
                    [alias |-> alias, directory |-> canonicalPath,
                     cslFiles |-> cslFiles, initialized |-> TRUE]),
             MapPut(s.directoryRegistry, canonicalPath, alias),
             s.initOrder)

\* mutant: the commit leaves directoryRegistry out
CommitInstance_NoDirectory(s, alias, canonicalPath, cslFiles) ==
    Registry(MapPut(s.configs, alias,
                    [alias |-> alias, directory |-> canonicalPath,
                     cslFiles |-> cslFiles, initialized |-> TRUE]),
             s.directoryRegistry,
             Append(s.initOrder, alias))

\* mutant: the commit puts the alias at the front of initOrder
CommitInstance_Prepend(s, alias, canonicalPath, cslFiles) ==
    Registry(MapPut(s.configs, alias,
                    [alias |-> alias, directory |-> canonicalPath,
                     cslFiles |-> cslFiles, initialized |-> TRUE]),
             MapPut(s.directoryRegistry, canonicalPath, alias),
             <<alias>> \o s.initOrder)

\* Init, "Add to maps and initOrder"
CommitInstance(s, alias, canonicalPath, cslFiles) ==
    LET config == [alias |-> alias, directory |-> canonicalPath,
                   cslFiles |-> cslFiles, initialized |-> TRUE]
    IN Registry(MapPut(s.configs, alias, config),
                MapPut(s.directoryRegistry, canonicalPath, alias),
                Append(s.initOrder, alias))

\* mutant: the instance is committed before the enumeration result is checked
InitEnumerated_CommitFirst(s, req, canonicalPath, en) ==
    IF en.err # ""
    THEN [reg |-> CommitInstance(s, req.alias, canonicalPath, en.cslFiles),
          status |-> Status("Internal", "alias %q: failed to enumerate .csl files: %v",
                            <<req.alias, en.err>>)]
    ELSE [reg |-> CommitInstance(s, req.alias, canonicalPath, en.cslFiles),
          status |-> OkStatus]

\* Init after enumerateCSLFiles returned en: fail or commit
InitEnumerated(s, req, canonicalPath, en) ==
    IF en.err # ""
    THEN FailWithRollback(s, "Internal",
             "alias %q: failed to enumerate .csl files: %v" \o RolledBackSuffix,
             <<req.alias, en.err>>,
             "alias %q: failed to enumerate .csl files: %v",
             <<req.alias, en.err>>)
    ELSE [reg |-> CommitInstance(s, req.alias, canonicalPath, en.cslFiles),
          status |-> OkStatus]

\* Init after canonicalizePath returned canon: the duplicate-directory
\* check, then the enumeration
InitCanonical(s, req, canon, fault) ==
    IF canon.err
    THEN FailWithRollback(s, "Internal",
             "alias %q: failed to canonicalize path: %v" \o RolledBackSuffix,
             <<req.alias, "failed to resolve symlinks">>,
             "alias %q: failed to canonicalize path: %v",
             <<req.alias, "failed to resolve symlinks">>)
    ELSE IF canon.path \in DOMAIN s.directoryRegistry
    THEN FailDuplicateDirectory(s, canon.path, s.directoryRegistry[canon.path], req.alias)
    ELSE InitEnumerated(s, req, canon.path, enumerateCSLFiles(canon.path, fault))

\* Init after os.Stat(absPath) returned info
InitStatted(s, req, absPath, info, fault) ==
    IF info.err = "notexist"
    THEN FailWithRollback(s, "NotFound",
             "alias %q: directory does not exist: %s" \o RolledBackSuffix,
             <<req.alias, absPath>>,
             "alias %q: directory does not exist: %s",
             <<req.alias, absPath>>)
    ELSE IF info.err # "none"
    THEN FailWithRollback(s, "Internal",
             "alias %q: failed to stat directory: %v" \o RolledBackSuffix,
             <<req.alias, info.err>>,
             "alias %q: failed to stat directory: %v",
             <<req.alias, info.err>>)
    ELSE IF ~info.isDir
    THEN FailWithRollback(s, "InvalidArgument",
             "alias %q: path is not a directory: %s" \o RolledBackSuffix,
             <<req.alias, absPath>>,
             "alias %q: path is not a directory: %s",
             <<req.alias, absPath>>)
    ELSE InitCanonical(s, req, canonicalizePath(absPath, fault), fault)

\* Init after the path resolution returned abs
InitResolved(s, req, abs, fault) ==
    IF abs.err
    THEN FailWithRollback(s, "InvalidArgument",
             "alias %q: failed to resolve path to absolute: %v" \o RolledBackSuffix,
             <<req.alias, "getwd">>,
             "alias %q: failed to resolve path to absolute: %v",
             <<req.alias, "getwd">>)
    ELSE InitStatted(s, req, abs.path, Stat(abs.path, fault), fault)

\* Init once the 'directory' key is known to exist with value dirValue
InitDirValue(s, req, dirValue, fault) ==
    IF dirValue.t # "string"
    THEN FailWithRollback(s, "InvalidArgument",
             "alias %q: directory must be a string, got %T" \o RolledBackSuffix,
             <<req.alias, dirValue.t>>,
             "alias %q: directory must be a string, got %T",
             <<req.alias, dirValue.t>>)
    ELSE InitResolved(s, req, ResolveAbsPath(dirValue.v, req.sourceFilePath, fault), fault)

\* mutant: an Init that names a registered alias succeeds and changes nothing
InitCall_AliasIdempotent(s, req, fault) ==
    IF req.alias = ""
    THEN FailWithRollback(s, "InvalidArgument",
             "alias %q: alias cannot be empty" \o RolledBackSuffix, <<req.alias>>,
             "alias cannot be empty", << >>)
    ELSE IF req.alias \in DOMAIN s.configs
    THEN [reg |-> s, status |-> OkStatus]
    ELSE IF "directory" \notin DOMAIN req.config
    THEN FailWithRollback(s, "InvalidArgument",
             "alias %q: missing required config key 'directory'" \o RolledBackSuffix,
             <<req.alias>>,
             "alias %q: missing required config key 'directory'", <<req.alias>>)
    ELSE InitDirValue(s, req, req.config["directory"], fault)

\* mutant: a registered alias is not refused, the new instance takes its place
InitCall_ReplacesAlias(s, req, fault) ==
    IF req.alias = ""
    THEN FailWithRollback(s, "InvalidArgument",
             "alias %q: alias cannot be empty" \o RolledBackSuffix, <<req.alias>>,
             "alias cannot be empty", << >>)
    ELSE IF "directory" \notin DOMAIN req.config
    THEN FailWithRollback(s, "InvalidArgument",
             "alias %q: missing required config key 'directory'" \o RolledBackSuffix,
             <<req.alias>>,
             "alias %q: missing required config key 'directory'", <<req.alias>>)
    ELSE InitDirValue(s, req, req.config["directory"], fault)

\* mutant: the 'directory' key is looked for before the alias is looked up
InitCall_DirectoryBeforeAlias(s, req, fault) ==
    IF req.alias = ""
    THEN FailWithRollback(s, "InvalidArgument",
             "alias %q: alias cannot be empty" \o RolledBackSuffix, <<req.alias>>,
             "alias cannot be empty", << >>)
    ELSE IF "directory" \notin DOMAIN req.config
    THEN FailWithRollback(s, "InvalidArgument",
             "alias %q: missing required config key 'directory'" \o RolledBackSuffix,
             <<req.alias>>,
             "alias %q: missing required config key 'directory'", <<req.alias>>)
    ELSE IF req.alias \in DOMAIN s.configs
    THEN FailDuplicateAlias(s, req.alias)
    ELSE InitDirValue(s, req, req.config["directory"], fault)

\* FileProviderService.Init under the exclusive lock: the registry after
\* the call and the status returned
InitCall(s, req, fault) ==
    IF req.alias = ""
    THEN FailWithRollback(s, "InvalidArgument",
             "alias %q: alias cannot be empty" \o RolledBackSuffix, <<req.alias>>,
             "alias cannot be empty", << >>)
    ELSE IF req.alias \in DOMAIN s.configs
    THEN FailDuplicateAlias(s, req.alias)
    ELSE IF "directory" \notin DOMAIN req.config
    THEN FailWithRollback(s, "InvalidArgument",
             "alias %q: missing required config key 'directory'" \o RolledBackSuffix,
             <<req.alias>>,
             "alias %q: missing required config key 'directory'", <<req.alias>>)
    ELSE InitDirValue(s, req, req.config["directory"], fault)

\* mutant: Shutdown forgets the configs map
ShutdownCall_KeepConfigs(s) ==
    [reg |-> Registry(s.configs, EmptyMap, << >>), status |-> OkStatus]

\* mutant: Shutdown forgets the directory registry
ShutdownCall_KeepDirectories(s) ==
    [reg |-> Registry(EmptyMap, s.directoryRegistry, << >>), status |-> OkStatus]

\* FileProviderService.Shutdown under the exclusive lock
ShutdownCall(s) == [reg |-> EmptyRegistry, status |-> OkStatus]

(***************************************************************************)
(* Documents: what parseCSLFile returns for each file.  A value is a       *)
(* string, a list or a map (Go: string, []any, map[string]any).            *)
(***************************************************************************)
Str(v) == [t |-> "string", v |-> v]

List(l) == [t |-> "list", v |-> l]

Map(m) == [t |-> "map", v |-> m]

IsMap(d) == d.t = "map"

\* the parsed contents of the files of the file system; d2/c.csl does not parse
Documents ==
    [f \in {"/w/d1/a.csl", "/w/d1/b.csl", "/w/d2/a.csl"} |->
        CASE f = "/w/d1/a.csl" ->
                 Map([k \in {"app", "region"} |->
                        IF k = "app"
                        THEN Map([j \in {"name", "port", "tags"} |->
                                    CASE j = "name" -> Str("alpha")
                                      [] j = "port" -> Str("1111")
                                      [] j = "tags" -> List(<<Str("x"), Str("y")>>)])
                        ELSE Str("us")])
          [] f = "/w/d1/b.csl" ->
                 Map([k \in {"app"} |->
                        Map([j \in {"port", "env"} |->
                               IF j = "port" THEN Str("2222") ELSE Str("prod")])])
          [] f = "/w/d2/a.csl" ->
                 Map([k \in {"net"} |-> Map([j \in {"host"} |-> Str("h")])])]

\* parseCSLFile of the file whose path resolves as r
ParseResolved(r) ==
    IF r.err \/ AbsOf(r.path) \notin DOMAIN Documents
    THEN [err |-> TRUE, data |-> Str("")]
    ELSE [err |-> FALSE, data |-> Documents[AbsOf(r.path)]]

\* parseCSLFile: the document, or an error when the file cannot be read
\* (it is opened through any link on its path) or parsed
parseCSLFile(filePath, fault) ==
    IF fault = "parse" THEN [err |-> TRUE, data |-> Str("")]
    ELSE ParseResolved(WalkSymlinks(filePath))

\* mutant: a value that is not a map is returned without the wrapping
toProtoStruct_NoWrap(v) == v

\* toProtoStruct: a map as it is, anything else under the key "value"
toProtoStruct(v) ==
    IF IsMap(v) THEN v ELSE Map([k \in {"value"} |-> v])

\* fmt's %v of a string slice: "[a b c]"
RECURSIVE JoinSpace(_)
JoinSpace(elems) ==
    IF Len(elems) = 0 THEN ""
    ELSE IF Len(elems) = 1 THEN elems[1]
    ELSE elems[1] \o " " \o JoinSpace(Tail(elems))

FormatPath(path) == "[" \o JoinSpace(path) \o "]"

FetchOk(s, v) == [reg |-> s, status |-> OkStatus, value |-> v]

\* mutant: a Fetch that fails leaves an empty registry
FetchError_Resets(s, code, fmt, args) ==
    [reg |-> EmptyRegistry, status |-> Status(code, fmt, args), value |-> Str("")]

FetchError(s, code, fmt, args) ==
    [reg |-> s, status |-> Status(code, fmt, args), value |-> Str("")]

\* mutant: a value that is not a map is reported as a missing key
RECURSIVE Navigate_NonMapNotFound(_, _, _, _, _, _)
Navigate_NonMapNotFound(s, cfg, baseName, path, i, current) ==
    IF i > Len(path) THEN FetchOk(s, toProtoStruct(current))
    ELSE IF ~IsMap(current) \/ path[i] \notin DOMAIN current.v
    THEN FetchError(s, "NotFound",
             "path element %q not found in file %q (provider instance %q)",
             <<path[i], baseName, cfg.alias>>)
    ELSE Navigate_NonMapNotFound(s, cfg, baseName, path, i + 1, current.v[path[i]])

\* mutant: the error for a missing key names the last segment of the path
RECURSIVE Navigate_NamesLastSegment(_, _, _, _, _, _)
Navigate_NamesLastSegment(s, cfg, baseName, path, i, current) ==
    IF i > Len(path) THEN FetchOk(s, toProtoStruct(current))
    ELSE IF ~IsMap(current)
    THEN FetchError(s, "InvalidArgument",
             "cannot navigate to path %v: element at index %d is not a map",
             <<FormatPath(path), ToString(i - 1)>>)
    ELSE IF path[i] \notin DOMAIN current.v
    THEN FetchError(s, "NotFound",
             "path element %q not found in file %q (provider instance %q)",
             <<path[Len(path)], baseName, cfg.alias>>)
    ELSE Navigate_NamesLastSegment(s, cfg, baseName, path, i + 1, current.v[path[i]])

\* mutant: a trailing "*" returns the value reached, whatever it is
RECURSIVE Navigate_TrailingStarReturnsAny(_, _, _, _, _, _)
Navigate_TrailingStarReturnsAny(s, cfg, baseName, path, i, current) ==
    IF i > Len(path) THEN FetchOk(s, toProtoStruct(current))
    ELSE IF i = Len(path) /\ path[i] = "*" THEN FetchOk(s, toProtoStruct(current))
    ELSE IF ~IsMap(current)
    THEN FetchError(s, "InvalidArgument",
             "cannot navigate to path %v: element at index %d is not a map",
             <<FormatPath(path), ToString(i - 1)>>)
    ELSE IF path[i] \notin DOMAIN current.v
    THEN FetchError(s, "NotFound",
             "path element %q not found in file %q (provider instance %q)",
             <<path[i], baseName, cfg.alias>>)
    ELSE Navigate_TrailingStarReturnsAny(s, cfg, baseName, path, i + 1, current.v[path[i]])

\* Fetch's navigation loop at path[i], the current value being current
RECURSIVE Navigate(_, _, _, _, _, _)
Navigate(s, cfg, baseName, path, i, current) ==
    IF i > Len(path) THEN FetchOk(s, toProtoStruct(current))
    ELSE IF ~IsMap(current)
    THEN FetchError(s, "InvalidArgument",
             "cannot navigate to path %v: element at index %d is not a map",
             <<FormatPath(path), ToString(i - 1)>>)
    ELSE IF path[i] \notin DOMAIN current.v
    THEN FetchError(s, "NotFound",
             "path element %q not found in file %q (provider instance %q)",
             <<path[i], baseName, cfg.alias>>)
    ELSE Navigate(s, cfg, baseName, path, i + 1, current.v[path[i]])

\* mutant: a file that does not parse is reported as not found
FetchParsed_ParseErrorNotFound(s, cfg, baseName, path, nestedPathStart, filePath, parsed) ==
    IF parsed.err
    THEN FetchError(s, "NotFound", "failed to parse .csl file %q: %v",
                    <<filePath, "parse error">>)
    ELSE Navigate(s, cfg, baseName, path, nestedPathStart + 1, parsed.data)

\* Fetch after parseCSLFile returned parsed
FetchParsed(s, cfg, baseName, path, nestedPathStart, filePath, parsed) ==
    IF parsed.err
    THEN FetchError(s, "Internal", "failed to parse .csl file %q: %v",
                    <<filePath, "parse error">>)
    ELSE Navigate(s, cfg, baseName, path, nestedPathStart + 1, parsed.data)

\* mutant: a file the instance lacks is taken from another instance that has it
FetchFile_AnyInstance(s, cfg, baseName, pathOffset, path, fault) ==
    IF baseName \in DOMAIN cfg.cslFiles
    THEN FetchParsed(s, cfg, baseName, path, pathOffset + 1, cfg.cslFiles[baseName],
                     parseCSLFile(cfg.cslFiles[baseName], fault))
    ELSE IF \E a \in DOMAIN s.configs : baseName \in DOMAIN s.configs[a].cslFiles
    THEN FetchParsed(s, cfg, baseName, path, pathOffset + 1,
             s.configs[CHOOSE a \in DOMAIN s.configs :
                           baseName \in DOMAIN s.configs[a].cslFiles].cslFiles[baseName],
             parseCSLFile(
                 s.configs[CHOOSE a \in DOMAIN s.configs :
                               baseName \in DOMAIN s.configs[a].cslFiles].cslFiles[baseName],
                 fault))
    ELSE FetchError(s, "NotFound", "file %q not found in provider instance %q",
                    <<baseName, cfg.alias>>)

\* Fetch once the instance, the file name and the offset are determined
FetchFile(s, cfg, baseName, pathOffset, path, fault) ==
    IF baseName \notin DOMAIN cfg.cslFiles
    THEN FetchError(s, "NotFound", "file %q not found in provider instance %q",
                    <<baseName, cfg.alias>>)
    ELSE FetchParsed(s, cfg, baseName, path, pathOffset + 1, cfg.cslFiles[baseName],
                     parseCSLFile(cfg.cslFiles[baseName], fault))

\* the instance Fetch picks when exactly one is registered
SoleInstance(c) == c[CHOOSE a \in DOMAIN c : TRUE]

\* mutant: explicit mode takes path[0] as the filename too
FetchExplicit_FilenameFirst(s, path, fault) ==
    IF Len(path) < 2
    THEN FetchError(s, "InvalidArgument",
                    "path must contain at least [alias, filename]", << >>)
    ELSE FetchFile(s, s.configs[path[1]], path[1], 0, path, fault)

\* Fetch, path[0] being an alias: "multi-instance explicit mode"
FetchExplicit(s, path, fault) ==
    IF Len(path) < 2
    THEN FetchError(s, "InvalidArgument",
                    "path must contain at least [alias, filename]", << >>)
    ELSE FetchFile(s, s.configs[path[1]], path[2], 1, path, fault)

\* mutant: implicit mode keeps the explicit mode's offset
FetchImplicit_ExplicitOffset(s, path, fault) ==
    FetchFile(s, SoleInstance(s.configs), path[1], 1, path, fault)

\* Fetch, path[0] not being an alias and one instance registered
FetchImplicit(s, path, fault) ==
    FetchFile(s, SoleInstance(s.configs), path[1], 0, path, fault)

NotFoundInstanceFmt ==
    "provider instance %q not found (hint: with multiple instances, path must start with alias)"

\* mutant: the empty registry is not told apart from several instances
FetchDetect_NoEmptyCheck(s, path, fault) ==
    IF path[1] \in DOMAIN s.configs
    THEN FetchExplicit(s, path, fault)
    ELSE IF Cardinality(DOMAIN s.configs) = 1
    THEN FetchImplicit(s, path, fault)
    ELSE FetchError(s, "NotFound", NotFoundInstanceFmt, <<path[1]>>)

\* mutant: with several instances an unknown first segment falls back to
\* a filename of one of them
FetchDetect_FallsBack(s, path, fault) ==
    IF path[1] \in DOMAIN s.configs
    THEN FetchExplicit(s, path, fault)
    ELSE IF Cardinality(DOMAIN s.configs) = 0
    THEN FetchError(s, "FailedPrecondition", "no provider instances initialized", << >>)
    ELSE FetchImplicit(s, path, fault)

\* mutant: with one instance a first segment that names one of its files
\* is taken as the filename, also when it is the alias
FetchDetect_FilenameWins(s, path, fault) ==
    IF Cardinality(DOMAIN s.configs) = 1
       /\ path[1] \in DOMAIN SoleInstance(s.configs).cslFiles
    THEN FetchImplicit(s, path, fault)
    ELSE IF path[1] \in DOMAIN s.configs
    THEN FetchExplicit(s, path, fault)
    ELSE IF Cardinality(DOMAIN s.configs) = 0
    THEN FetchError(s, "FailedPrecondition", "no provider instances initialized", << >>)
    ELSE IF Cardinality(DOMAIN s.configs) = 1
    THEN FetchImplicit(s, path, fault)
    ELSE FetchError(s, "NotFound", NotFoundInstanceFmt, <<path[1]>>)

\* mutant: a sole instance is always addressed implicitly, also by its alias
FetchDetect_SoleAlwaysImplicit(s, path, fault) ==
    IF Cardinality(DOMAIN s.configs) = 0
    THEN FetchError(s, "FailedPrecondition", "no provider instances initialized", << >>)
    ELSE IF Cardinality(DOMAIN s.configs) = 1
    THEN FetchImplicit(s, path, fault)
    ELSE IF path[1] \in DOMAIN s.configs
    THEN FetchExplicit(s, path, fault)
    ELSE FetchError(s, "NotFound", NotFoundInstanceFmt, <<path[1]>>)

\* Fetch's mode detection: is path[0] an alias, and how many instances are there
FetchDetect(s, path, fault) ==
    IF path[1] \in DOMAIN s.configs
    THEN FetchExplicit(s, path, fault)
    ELSE IF Cardinality(DOMAIN s.configs) = 0
    THEN FetchError(s, "FailedPrecondition", "no provider instances initialized", << >>)
    ELSE IF Cardinality(DOMAIN s.configs) = 1
    THEN FetchImplicit(s, path, fault)
    ELSE FetchError(s, "NotFound", NotFoundInstanceFmt, <<path[1]>>)

\* mutant: the empty registry is reported before the path is validated
FetchCall_EmptyRegistryFirst(s, path, fault) ==
    IF Cardinality(DOMAIN s.configs) = 0
    THEN FetchError(s, "FailedPrecondition", "no provider instances initialized", << >>)
    ELSE IF Len(path) = 0
    THEN FetchError(s, "InvalidArgument", "path cannot be empty", << >>)
    ELSE IF path[1] = ""
    THEN FetchError(s, "InvalidArgument", "path[0] cannot be empty", << >>)
    ELSE FetchDetect(s, path, fault)

\* FileProviderService.Fetch under the shared lock; nestedPathStart is
\* 0-based in the code, path indices are 1-based here
FetchCall(s, path, fault) ==
    IF Len(path) = 0
    THEN FetchError(s, "InvalidArgument", "path cannot be empty", << >>)
    ELSE IF path[1] = ""
    THEN FetchError(s, "InvalidArgument", "path[0] cannot be empty", << >>)
    ELSE FetchDetect(s, path, fault)

\* the version and type given to NewFileProviderService
Version == "0.2.1"

ProviderType == "file"

\* mutant: Info fails until an instance is registered
InfoCall_NeedsInstance(s) ==
    IF DOMAIN s.configs = {}
    THEN [reg |-> s,
          status |-> Status("FailedPrecondition", "provider not initialized", << >>),
          value |-> Str("")]
    ELSE [reg |-> s, status |-> OkStatus,
          value |-> [version |-> Version, type |-> ProviderType]]

\* FileProviderService.Info under the shared lock
InfoCall(s) ==
    [reg |-> s, status |-> OkStatus,
     value |-> [version |-> Version, type |-> ProviderType]]

\* mutant: hasConfigs asks for more than one instance
HealthCall_MoreThanOne(s) ==
    IF ~(Cardinality(DOMAIN s.configs) > 1)
    THEN [reg |-> s, status |-> OkStatus,
          value |-> [status |-> "STATUS_DEGRADED", message |-> "no instances initialized"]]
    ELSE [reg |-> s, status |-> OkStatus,
          value |-> [status |-> "STATUS_OK", message |-> "healthy"]]

\* FileProviderService.Health: hasConfigs is read under the shared lock
HealthCall(s) ==
    IF ~(Cardinality(DOMAIN s.configs) > 0)
    THEN [reg |-> s, status |-> OkStatus,
          value |-> [status |-> "STATUS_DEGRADED", message |-> "no instances initialized"]]
    ELSE [reg |-> s, status |-> OkStatus,
          value |-> [status |-> "STATUS_OK", message |-> "healthy"]]

\* the paths offered to Fetch: no path, and [alias] file keys...
FileSegments == {"", "a", "b", "c", "x", "*"}

NestedKeys ==
    {<< >>, <<"app">>, <<"app", "name">>, <<"app", "tags">>, <<"app", "name", "x">>,
     <<"app", "zz">>, <<"region">>, <<"net", "host">>,
     <<"app", "*">>, <<"app", "name", "*">>, <<"app", "tags", "x">>}

FetchPaths ==
    {<< >>}
    \cup {<<f>> \o k : f \in FileSegments, k \in NestedKeys}
    \cup {<<a, f>> \o k : a \in Aliases \ {""}, f \in FileSegments, k \in NestedKeys}

FetchFaults == {"none", "parse"}

(***************************************************************************)
(* The single-instance service (service.go, first package body, lines      *)
(* 1-327): one config, and a Fetch that takes path[0] as the filename.     *)
(***************************************************************************)
\* s.config of a service that is not initialized
NoConfig == [alias |-> "", directory |-> "", cslFiles |-> EmptyMap, initialized |-> FALSE]

\* single-instance Shutdown: s.config = nil
ShutdownSingle(config) == [config |-> NoConfig, status |-> OkStatus]

\* enumerateCSLFiles of the single-instance service, after its loop
EnumerateSingleResult(r) ==
    IF r.err # "" THEN [err |-> "duplicate file base name %q", cslFiles |-> EmptyMap]
    ELSE IF Cardinality(DOMAIN r.cslFiles) = 0
    THEN [err |-> "no .csl files found in directory", cslFiles |-> EmptyMap]
    ELSE r

EnumerateSingleEntries(dirPath, rd) ==
    IF rd.err THEN [err |-> "failed to read directory: %w", cslFiles |-> EmptyMap]
    ELSE EnumerateSingleResult(EnumerateFrom(dirPath, rd.entries, 1, EmptyMap))

enumerateCSLFilesSingle(dirPath, fault) ==
    EnumerateSingleEntries(dirPath, ReadDir(dirPath, fault))

\* single-instance Init after enumerateCSLFiles returned en
InitSingleEnumerated(config, req, absPath, en) ==
    IF en.err # ""
    THEN [config |-> config,
          status |-> Status("Internal", "failed to enumerate .csl files: %v", <<en.err>>)]
    ELSE [config |-> [alias |-> req.alias, directory |-> absPath,
                      cslFiles |-> en.cslFiles, initialized |-> TRUE],
          status |-> OkStatus]

\* single-instance Init after os.Stat(absPath) returned info
InitSingleStatted(config, req, absPath, info, fault) ==
    IF info.err = "notexist"
    THEN [config |-> config,
          status |-> Status("NotFound", "directory does not exist: %s", <<absPath>>)]
    ELSE IF info.err # "none"
    THEN [config |-> config,
          status |-> Status("Internal", "failed to stat directory: %v", <<info.err>>)]
    ELSE IF ~info.isDir
    THEN [config |-> config,
          status |-> Status("InvalidArgument", "path is not a directory: %s", <<absPath>>)]
    ELSE InitSingleEnumerated(config, req, absPath, enumerateCSLFilesSingle(absPath, fault))

\* single-instance Init after the directory was resolved to abs
InitSingleResolved(config, req, abs, fault) ==
    IF abs.err
    THEN [config |-> config,
          status |-> Status("InvalidArgument", "failed to resolve path: %v", <<"getwd">>)]
    ELSE InitSingleStatted(config, req, abs.path, Stat(abs.path, fault), fault)

\* single-instance Init once the 'directory' key is known to exist
InitSingleDirValue(config, req, dirValue, fault) ==
    IF dirValue.t # "string"
    THEN [config |-> config,
          status |-> Status("InvalidArgument", "directory must be a string, got %T",
                            <<dirValue.t>>)]
    ELSE InitSingleResolved(config, req,
                            ResolveAbsPath(dirValue.v, req.sourceFilePath, fault), fault)

\* Init of the single-instance service: the config after the call and the
\* status returned
InitSingle(config, req, fault) ==
    IF config.initialized
    THEN [config |-> config,
          status |-> Status("FailedPrecondition", "provider already initialized as %q",
                            <<config.alias>>)]
    ELSE IF req.alias = ""
    THEN [config |-> config,
          status |-> Status("InvalidArgument", "alias cannot be empty", << >>)]
    ELSE IF "directory" \notin DOMAIN req.config
    THEN [config |-> config,
          status |-> Status("InvalidArgument", "missing required config key 'directory'",
                            << >>)]
    ELSE InitSingleDirValue(config, req, req.config["directory"], fault)

SingleOk(v) == [status |-> OkStatus, value |-> v]

SingleError(code, fmt, args) == [status |-> Status(code, fmt, args), value |-> Str("")]

\* the navigation loop of the single-instance Fetch at path[i]
RECURSIVE NavigateSingle(_, _, _)
NavigateSingle(path, i, current) ==
    IF i > Len(path) THEN SingleOk(toProtoStruct(current))
    ELSE IF ~IsMap(current)
    THEN SingleError("InvalidArgument",
                     "cannot navigate: element at index %d is not a map",
                     <<ToString(i - 1)>>)
    ELSE IF path[i] \notin DOMAIN current.v
    THEN SingleError("NotFound", "key %q not found", <<path[i]>>)
    ELSE NavigateSingle(path, i + 1, current.v[path[i]])

\* single-instance Fetch after parseCSLFile returned parsed
FetchSingleParsed(path, parsed) ==
    IF parsed.err
    THEN SingleError("Internal", "failed to parse file: %v", <<"parse error">>)
    ELSE NavigateSingle(path, 2, parsed.data)

\* Fetch of the single-instance service: path[0] is the filename
FetchSingle(config, path, fault) ==
    IF ~config.initialized
    THEN SingleError("FailedPrecondition", "provider not initialized", << >>)
    ELSE IF Len(path) = 0
    THEN SingleError("InvalidArgument", "path cannot be empty", << >>)
    ELSE IF path[1] = ""
    THEN SingleError("InvalidArgument", "path[0] cannot be empty", << >>)
    ELSE IF path[1] \notin DOMAIN config.cslFiles
    THEN SingleError("NotFound", "file %q not found", <<path[1]>>)
    ELSE FetchSingleParsed(path, parseCSLFile(config.cslFiles[path[1]], fault))

(***************************************************************************)
(* The sequential service: one client, one call at a time; each handler    *)
(* runs as a whole under its lock.                                         *)
(***************************************************************************)
Reg == Registry(configs, directoryRegistry, initOrder)

NoRequest == [alias |-> "", config |-> EmptyMap, sourceFilePath |-> ""]

NoValue == [t |-> "none"]

\* the aliases and directories registered in r
Registered(r) == [aliases |-> DOMAIN r.configs, directories |-> DOMAIN r.directoryRegistry]

\* before: what was registered on entry to the Shutdown that the call directly follows
NoCall == [op |-> "none", req |-> NoRequest, path |-> << >>, fault |-> "none",
           status |-> OkStatus, value |-> NoValue, entry |-> EmptyRegistry,
           before |-> Registered(EmptyRegistry)]

\* the rank a newly committed alias gets: after every registered one
NextRank(b) == Cardinality(DOMAIN b) + 1

\* history kept beside a registry change: aliases that left lose their rank,
\* an alias that entered gets the next one
BornAfter(b, c) ==
    [a \in DOMAIN c |->
        IF a \in DOMAIN b THEN b[a]
        ELSE NextRank([x \in (DOMAIN b) \cap (DOMAIN c) |-> b[x]])]

\* the clients of the concurrent service
Procs == {"p1", "p2"}

NoProc == "none"

\* sync.RWMutex: w is the writer that has called Lock, readers hold RLock
Unlocked == [w |-> NoProc, readers |-> {}]

\* a client that is not in a call
Idle == [at |-> "idle", op |-> "none", req |-> NoRequest, path |-> << >>, i |-> 0,
         target |-> EmptyRegistry, status |-> OkStatus, value |-> NoValue]

Init ==
    /\ configs = EmptyMap
    /\ directoryRegistry = EmptyMap
    /\ initOrder = << >>
    /\ last = NoCall
    /\ born = EmptyMap
    /\ mu = Unlocked
    /\ pc = [p \in Procs |-> Idle]

SetRegistry(r) ==
    /\ configs' = r.configs
    /\ directoryRegistry' = r.directoryRegistry
    /\ initOrder' = r.initOrder
    /\ born' = BornAfter(born, r.configs)
    /\ UNCHANGED <<mu, pc>>

\* a writer returns r: the registry it leaves and its status
Returns(op, req, fault, r) ==
    /\ SetRegistry(r.reg)
    /\ last' = [op |-> op, req |-> req, path |-> << >>, fault |-> fault,
                status |-> r.status, value |-> NoValue, entry |-> Reg,
                before |-> last.before]

\* a reader returns r: its status and value
Answers(op, path, fault, r) ==
    /\ SetRegistry(r.reg)
    /\ last' = [op |-> op, req |-> NoRequest, path |-> path, fault |-> fault,
                status |-> r.status, value |-> r.value, entry |-> Reg,
                before |-> Registered(EmptyRegistry)]

InitOp(req, fault) ==
    /\ last.op = "none"
    /\ Returns("Init", req, fault, InitCall(Reg, req, fault))

ShutdownOp ==
    /\ last.op = "none"
    /\ Returns("Shutdown", NoRequest, "none", ShutdownCall(Reg))

FetchOp(path, fault) ==
    /\ last.op = "none"
    /\ Answers("Fetch", path, fault, FetchCall(Reg, path, fault))

InfoOp ==
    /\ last.op = "none"
    /\ Answers("Info", << >>, "none", InfoCall(Reg))

HealthOp ==
    /\ last.op = "none"
    /\ Answers("Health", << >>, "none", HealthCall(Reg))

\* the client takes the response
Return ==
    /\ last.op # "none"
    /\ last' = [NoCall EXCEPT !.before = IF last.op = "Shutdown"
                                        THEN Registered(last.entry)
                                        ELSE Registered(EmptyRegistry)]
    /\ UNCHANGED <<configs, directoryRegistry, initOrder, born, mu, pc>>

Next ==
    \/ \E req \in InitRequests, fault \in Faults : InitOp(req, fault)
    \/ ShutdownOp
    \/ \E path \in FetchPaths, fault \in FetchFaults : FetchOp(path, fault)
    \/ InfoOp
    \/ HealthOp
    \/ Return

Spec == Init /\ [][Next]_vars

(***************************************************************************)
(* The concurrent service: clients call at any time; the handlers run      *)
(* statement by statement under s.mu.                                      *)
(***************************************************************************)
\* the requests and paths of the concurrent clients
ConcInitRequests ==
    [alias : {"a", "b"},
     config : {[k \in {"directory"} |-> StringValue(d)] : d \in {"/w/d1", "/w/d2", "/w/nx"}},
     sourceFilePath : {""}]

ConcFetchPaths == {<<"a", "a", "region">>, <<"b">>}

\* s.mu.Lock() can take the writer's slot: no other writer has it
LockEnabled(m) == m.w = NoProc

\* mutant: the writer does not wait for the readers that are in
WriterMayEnter_IgnoresReaders(m) == TRUE

\* the writer proceeds once the readers that were in have left
WriterMayEnter(m) == m.readers = {}

\* mutant: RLock admits a reader while a writer has the lock
RLockEnabled_IgnoresWriter(m) == TRUE

\* s.mu.RLock() is granted: no writer holds or waits for the lock
RLockEnabled(m) == m.w = NoProc

Enter(p, op, req, path, at) ==
    /\ pc' = [pc EXCEPT ![p] = [Idle EXCEPT !.at = at, !.op = op, !.req = req, !.path = path]]
    /\ UNCHANGED <<configs, directoryRegistry, initOrder, last, born, mu>>

Goto(p, at) == pc' = [pc EXCEPT ![p].at = at]

CallInit(p, req) ==
    /\ pc[p].at = "idle"
    /\ Enter(p, "Init", req, << >>, "Lock")

CallShutdown(p) ==
    /\ pc[p].at = "idle"
    /\ Enter(p, "Shutdown", NoRequest, << >>, "Lock")

CallFetch(p, path) ==
    /\ pc[p].at = "idle"
    /\ Enter(p, "Fetch", NoRequest, path, "RLock")

CallInfo(p) ==
    /\ pc[p].at = "idle"
    /\ Enter(p, "Info", NoRequest, << >>, "RLock")

CallHealth(p) ==
    /\ pc[p].at = "idle"
    /\ Enter(p, "Health", NoRequest, << >>, "RLock")

\* s.mu.Lock(), first half: the writer announces itself
Lock(p) ==
    /\ pc[p].at = "Lock"
    /\ LockEnabled(mu)
    /\ mu' = [mu EXCEPT !.w = p]
    /\ Goto(p, "LockWait")
    /\ UNCHANGED <<configs, directoryRegistry, initOrder, last, born>>

\* s.mu.Lock(), second half: the readers have left, the body starts
LockAcquired(p) ==
    /\ pc[p].at = "LockWait"
    /\ WriterMayEnter(mu)
    /\ Goto(p, IF pc[p].op = "Init" THEN "Validate" ELSE "ClearConfigs")
    /\ UNCHANGED <<configs, directoryRegistry, initOrder, last, born, mu>>

\* mutant: an Init that fails with nothing to roll back returns with the lock
AfterValidate_ErrorKeepsLock(s, r) ==
    IF r.status.code = "OK" THEN "CommitConfigs"
    ELSE IF r.reg # s THEN "Rollback"
    ELSE "Return"

\* where Init goes after its checks gave r on the registry s
AfterValidate(s, r) ==
    IF r.status.code = "OK" THEN "CommitConfigs"
    ELSE IF r.reg # s THEN "Rollback"
    ELSE "Unlock"

\* Init's checks, up to the commit or the failing check
InitValidated(p, r) ==
    /\ pc' = [pc EXCEPT ![p].at = AfterValidate(Reg, r), ![p].target = r.reg,
                        ![p].status = r.status, ![p].i = Len(initOrder)]
    /\ UNCHANGED <<configs, directoryRegistry, initOrder, last, born, mu>>

InitValidate(p) ==
    /\ pc[p].at = "Validate"
    /\ InitValidated(p, InitCall(Reg, pc[p].req, "none"))

\* s.configs[req.Alias] = config
InitCommitConfigs(p) ==
    /\ pc[p].at = "CommitConfigs"
    /\ configs' = pc[p].target.configs
    /\ Goto(p, "CommitDirectory")
    /\ UNCHANGED <<directoryRegistry, initOrder, last, born, mu>>

\* s.directoryRegistry[canonicalPath] = req.Alias
InitCommitDirectory(p) ==
    /\ pc[p].at = "CommitDirectory"
    /\ directoryRegistry' = pc[p].target.directoryRegistry
    /\ Goto(p, "CommitOrder")
    /\ UNCHANGED <<configs, initOrder, last, born, mu>>

\* s.initOrder = append(s.initOrder, req.Alias)
InitCommitOrder(p) ==
    /\ pc[p].at = "CommitOrder"
    /\ initOrder' = pc[p].target.initOrder
    /\ Goto(p, "Unlock")
    /\ UNCHANGED <<configs, directoryRegistry, last, born, mu>>

RegistryBecomes(r) ==
    /\ configs' = r.configs
    /\ directoryRegistry' = r.directoryRegistry
    /\ initOrder' = r.initOrder

\* one iteration of rollbackAll's loop
RollbackStep(p) ==
    /\ pc[p].at = "Rollback"
    /\ pc[p].i > 0
    /\ RegistryBecomes(RollbackOne(Reg, pc[p].i))
    /\ pc' = [pc EXCEPT ![p].i = pc[p].i - 1]
    /\ UNCHANGED <<last, born, mu>>

\* rollbackAll after its loop: s.initOrder = s.initOrder[:0]
RollbackClear(p) ==
    /\ pc[p].at = "Rollback"
    /\ pc[p].i = 0
    /\ RegistryBecomes(ClearInitOrder(Reg))
    /\ Goto(p, "Unlock")
    /\ UNCHANGED <<last, born, mu>>

\* Shutdown: s.configs = make(...)
ShutdownConfigs(p) ==
    /\ pc[p].at = "ClearConfigs"
    /\ configs' = ShutdownCall(Reg).reg.configs
    /\ Goto(p, "ClearDirectories")
    /\ UNCHANGED <<directoryRegistry, initOrder, last, born, mu>>

\* Shutdown: s.directoryRegistry = make(...)
ShutdownDirectories(p) ==
    /\ pc[p].at = "ClearDirectories"
    /\ directoryRegistry' = ShutdownCall(Reg).reg.directoryRegistry
    /\ Goto(p, "ClearOrder")
    /\ UNCHANGED <<configs, initOrder, last, born, mu>>

\* Shutdown: s.initOrder = s.initOrder[:0]
ShutdownOrder(p) ==
    /\ pc[p].at = "ClearOrder"
    /\ initOrder' = ShutdownCall(Reg).reg.initOrder
    /\ Goto(p, "Unlock")
    /\ UNCHANGED <<configs, directoryRegistry, last, born, mu>>

\* the deferred s.mu.Unlock()
Unlock(p) ==
    /\ pc[p].at = "Unlock"
    /\ mu' = [mu EXCEPT !.w = NoProc]
    /\ Goto(p, "Return")
    /\ UNCHANGED <<configs, directoryRegistry, initOrder, last, born>>

\* s.mu.RLock()
RLock(p) ==
    /\ pc[p].at = "RLock"
    /\ RLockEnabled(mu)
    /\ mu' = [mu EXCEPT !.readers = @ \cup {p}]
    /\ Goto(p, "Read")
    /\ UNCHANGED <<configs, directoryRegistry, initOrder, last, born>>

\* what a reader computes from the registry it sees
ReadCall(s, op, path) ==
    IF op = "Fetch" THEN FetchCall(s, path, "none")
    ELSE IF op = "Health" THEN HealthCall(s)
    ELSE InfoCall(s)

Observed(p, r) ==
    /\ pc' = [pc EXCEPT ![p].at = "RUnlock", ![p].target = Reg,
                        ![p].status = r.status, ![p].value = r.value]
    /\ UNCHANGED <<configs, directoryRegistry, initOrder, last, born, mu>>

\* the body of Fetch, Info or Health under the shared lock
Read(p) ==
    /\ pc[p].at = "Read"
    /\ Observed(p, ReadCall(Reg, pc[p].op, pc[p].path))

\* s.mu.RUnlock()
RUnlock(p) ==
    /\ pc[p].at = "RUnlock"
    /\ mu' = [mu EXCEPT !.readers = @ \ {p}]
    /\ Goto(p, "Return")
    /\ UNCHANGED <<configs, directoryRegistry, initOrder, last, born>>

\* the call returns to its client
Returned(p) ==
    /\ pc[p].at = "Return"
    /\ pc' = [pc EXCEPT ![p] = Idle]
    /\ UNCHANGED <<configs, directoryRegistry, initOrder, last, born, mu>>

NextConc ==
    \E p \in Procs :
        \/ \E req \in ConcInitRequests : CallInit(p, req)
        \/ CallShutdown(p)
        \/ \E path \in ConcFetchPaths : CallFetch(p, path)
        \/ CallInfo(p)
        \/ CallHealth(p)
        \/ Lock(p)
        \/ LockAcquired(p)
        \/ InitValidate(p)
        \/ InitCommitConfigs(p)
        \/ InitCommitDirectory(p)
        \/ InitCommitOrder(p)
        \/ RollbackStep(p)
        \/ RollbackClear(p)
        \/ ShutdownConfigs(p)
        \/ ShutdownDirectories(p)
        \/ ShutdownOrder(p)
        \/ Unlock(p)
        \/ RLock(p)
        \/ Read(p)
        \/ RUnlock(p)
        \/ Returned(p)

SpecConc == Init /\ [][NextConc]_vars

\* the steps of a call that compute its outcome from the registry
Computes(p) == InitValidate(p) \/ Read(p)

\* a call is at a step that computes: Computes(p) is enabled
Computing(p) == pc[p].at \in {"Validate", "Read"}

\* the other steps of a call that wait for no other client
Proceed(p) ==
    \/ InitCommitConfigs(p)
    \/ InitCommitDirectory(p)
    \/ InitCommitOrder(p)
    \/ RollbackStep(p)
    \/ RollbackClear(p)
    \/ ShutdownConfigs(p)
    \/ ShutdownDirectories(p)
    \/ ShutdownOrder(p)
    \/ Unlock(p)
    \/ RUnlock(p)
    \/ Returned(p)

\* the scheduler runs every goroutine that can run (weak fairness, for
\* Computes written out with Computing as its enabling condition); a writer
\* that has announced itself is woken by the last reader to leave;
\* sync.Mutex hands the lock to a goroutine that keeps waiting, and Unlock
\* of the RWMutex admits the readers blocked behind the writer
Fairness ==
    \A p \in Procs :
        /\ WF_vars(Proceed(p))
        /\ []<>(~Computing(p)) \/ []<><<Computes(p)>>_vars
        /\ WF_vars(LockAcquired(p))
        /\ SF_vars(Lock(p))
        /\ SF_vars(RLock(p))

\* the requests of the fair service: alias a with a directory that holds
\* files, alias b with that directory, another one, or none that exists
FairInitRequests ==
    {req \in ConcInitRequests :
        req.alias = "a" => req.config["directory"] = StringValue("/w/d1")}

FairFetchPaths == {<<"a", "a", "region">>}

NextConcFair ==
    \E p \in Procs :
        \/ \E req \in FairInitRequests : CallInit(p, req)
        \/ CallShutdown(p)
        \/ \E path \in FairFetchPaths : CallFetch(p, path)
        \/ CallInfo(p)
        \/ CallHealth(p)
        \/ Lock(p)
        \/ LockAcquired(p)
        \/ InitValidate(p)
        \/ InitCommitConfigs(p)
        \/ InitCommitDirectory(p)
        \/ InitCommitOrder(p)
        \/ RollbackStep(p)
        \/ RollbackClear(p)
        \/ ShutdownConfigs(p)
        \/ ShutdownDirectories(p)
        \/ ShutdownOrder(p)
        \/ Unlock(p)
        \/ RLock(p)
        \/ Read(p)
        \/ RUnlock(p)
        \/ Returned(p)

\* the service under concurrent clients and a fair scheduler; clients are
\* free to call again and again, or not at all
SpecConcFair == Init /\ [][NextConcFair]_vars /\ Fairness

(***************************************************************************)
(* Properties of the registry (sequential service).                        *)
(***************************************************************************)
RegistryEmpty == configs = EmptyMap /\ directoryRegistry = EmptyMap /\ initOrder = << >>

InitReturned == last.op = "Init"

InitFailed == last.op = "Init" /\ last.status.code # "OK"

\* instances were registered when the last call entered
HadInstances == Len(last.entry.initOrder) > 0

\* the last call failed at the duplicate-directory check
DuplicateDirectoryFailure == InitFailed /\ last.status.fmt = DuplicateDirectoryFmt

\* the status carries a rolled-back count, and the count itself
StatesRolledBack(st) == HasSuffix(st.fmt, RolledBackSuffix) /\ Len(st.args) > 0

RolledBackCount(st) == st.args[Len(st.args)]

\* sub occurs in s
Contains(s, sub) ==
    \E i \in 1..(Len(s) - Len(sub) + 1) : SubSeq(s, i, i + Len(sub) - 1) = sub

\* the directory of the file system a path denotes: the location after
\* every link has been followed
PhysicalDir(p) == AbsOf(WalkSymlinks(p).path)

\* what the directory of a request canonicalizes to under the call's
\* fault: "" when the request does not get as far as a canonical path
CanonicalOfStat(absPath, info, fault) ==
    IF info.err = "none" /\ info.isDir /\ ~canonicalizePath(absPath, fault).err
    THEN canonicalizePath(absPath, fault).path
    ELSE ""

CanonicalOfAbs(abs, fault) ==
    IF abs.err THEN "" ELSE CanonicalOfStat(abs.path, Stat(abs.path, fault), fault)

RequestedCanonical(req, fault) ==
    IF "directory" \in DOMAIN req.config /\ req.config["directory"].t = "string"
    THEN CanonicalOfAbs(ResolveAbsPath(req.config["directory"].v, req.sourceFilePath, fault),
                        fault)
    ELSE ""

\* C1 as stated: whichever check of Init fails while at least one instance
\* is registered, the registry is empty when the call returns.
C1_EveryFailureEmpties ==
    (InitFailed /\ HadInstances) => RegistryEmpty

\* C1 amended: a failing Init made while at least one instance is
\* registered leaves the registry empty, unless the failing check is the
\* duplicate-directory check, which leaves the registry as it was.
C1_FailureEmptiesExceptDuplicateDirectory ==
    (InitFailed /\ HadInstances) =>
        IF last.status.fmt = DuplicateDirectoryFmt
        THEN Reg = last.entry
        ELSE RegistryEmpty

\* C1 witness: an Init other than a duplicate-directory one failed with two
\* instances registered, and the registry is empty.
C1_Witness ==
    /\ InitFailed
    /\ Len(last.entry.initOrder) >= 2
    /\ last.status.fmt # DuplicateDirectoryFmt
    /\ RegistryEmpty

\* C2: with exactly one instance registered, an Init under another alias
\* whose directory canonicalizes to the registered instance's directory
\* fails with FailedPrecondition, its message names both aliases, and the
\* registry still holds exactly the first instance.
C2_DuplicateDirectoryKeepsFirst ==
    (/\ InitReturned
     /\ Cardinality(DOMAIN last.entry.configs) = 1
     /\ last.req.alias # ""
     /\ last.req.alias \notin DOMAIN last.entry.configs
     /\ RequestedCanonical(last.req, last.fault) \in DOMAIN last.entry.directoryRegistry)
    => LET first == last.entry.initOrder[1]
           second == last.req.alias
       IN /\ last.status.code = "FailedPrecondition"
          /\ \E i, j \in 1..Len(last.status.args) :
                 last.status.args[i] = first /\ last.status.args[j] = second
          /\ \E i \in 1..Len(last.status.args) :
                 last.status.args[i] = last.entry.configs[first].directory
          /\ Reg = last.entry
          /\ DOMAIN configs = {first}
          /\ Cardinality(DOMAIN directoryRegistry) = 1
          /\ initOrder = <<first>>
          /\ second \notin DOMAIN configs

\* C2 witness: the second Init named the directory by another raw string (a
\* link or a relative form) and was rejected as a duplicate.
C2_Witness ==
    /\ DuplicateDirectoryFailure
    /\ Cardinality(DOMAIN last.entry.configs) = 1
    /\ last.req.config["directory"].v # configs[initOrder[1]].directory
    /\ DOMAIN configs = {initOrder[1]}

\* C3: an Init that fails while the registry is empty leaves configs,
\* directoryRegistry and initOrder empty; the failing alias is not registered.
C3_FailureOnEmptyChangesNothing ==
    (InitFailed /\ last.entry = EmptyRegistry) =>
        /\ Reg = last.entry
        /\ RegistryEmpty
        /\ last.req.alias \notin DOMAIN configs

\* C3 witness: an Init with a valid alias failed at the enumeration of a
\* directory without .csl files while the registry was empty.
C3_Witness ==
    /\ InitFailed
    /\ last.entry = EmptyRegistry
    /\ last.req.alias # ""
    /\ last.status.code = "Internal"
    /\ last.fault = "none"
    /\ RegistryEmpty

\* C4: the three structures agree in every reachable state: the keys of
\* configs are the elements of initOrder, directoryRegistry is exactly the
\* map from each instance's directory to its alias, and initOrder has no
\* duplicates and lists the aliases in the order of their commits.
C4_RegistryConsistent ==
    /\ DOMAIN configs = {initOrder[i] : i \in 1..Len(initOrder)}
    /\ \A i, j \in 1..Len(initOrder) : i # j => initOrder[i] # initOrder[j]
    /\ DOMAIN directoryRegistry = {configs[a].directory : a \in DOMAIN configs}
    /\ \A a \in DOMAIN configs :
           /\ configs[a].directory \in DOMAIN directoryRegistry
           /\ directoryRegistry[configs[a].directory] = a
    /\ \A i, j \in 1..Len(initOrder) : i < j => born[initOrder[i]] < born[initOrder[j]]

\* C4 witness: three instances are registered after an earlier rollback or
\* shutdown emptied the registry.
C4_Witness ==
    /\ Len(initOrder) = 3
    /\ InitReturned
    /\ last.status.code = "OK"

\* C5 as stated: no two registered instances are on the same directory of
\* the file system, whatever raw strings named it.
C5_NoSharedDirectory ==
    \A a, b \in DOMAIN configs :
        a # b => PhysicalDir(configs[a].directory) # PhysicalDir(configs[b].directory)

\* C6: a successful Init adds exactly one instance: the new alias maps to an
\* instance with that alias, the directory the request resolves to and
\* initialized = TRUE; directoryRegistry gains that directory; the alias is
\* appended to initOrder; everything registered before is unchanged.
C6_SuccessAddsOne ==
    (InitReturned /\ last.status.code = "OK") =>
        LET a == last.req.alias
            e == last.entry
        IN /\ a \notin DOMAIN e.configs
           /\ DOMAIN configs = (DOMAIN e.configs) \cup {a}
           /\ \A x \in DOMAIN e.configs : configs[x] = e.configs[x]
           /\ configs[a].alias = a
           /\ configs[a].initialized
           /\ configs[a].directory = RequestedCanonical(last.req, last.fault)
           /\ configs[a].directory \notin DOMAIN e.directoryRegistry
           /\ directoryRegistry = MapPut(e.directoryRegistry, configs[a].directory, a)
           /\ initOrder = Append(e.initOrder, a)
           /\ initOrder[Len(initOrder)] = a

\* C6 witness: a third instance was added behind two registered ones.
C6_Witness ==
    /\ InitReturned
    /\ last.status.code = "OK"
    /\ Len(last.entry.initOrder) = 2
    /\ Len(initOrder) = 3

\* C7: an Init whose alias is already registered fails with
\* FailedPrecondition ("already initialized"), the registered instance is
\* not replaced, and the registry is empty afterwards.
C7_DuplicateAliasRollsBack ==
    (InitReturned /\ last.req.alias \in DOMAIN last.entry.configs) =>
        /\ last.status.code = "FailedPrecondition"
        /\ Contains(last.status.fmt, "already initialized")
        /\ last.req.alias \notin DOMAIN configs
        /\ RegistryEmpty

\* C7 witness: the alias of one of two registered instances was submitted
\* again, with another directory.
C7_Witness ==
    /\ InitReturned
    /\ last.req.alias \in DOMAIN last.entry.configs
    /\ Len(last.entry.initOrder) = 2
    /\ "directory" \in DOMAIN last.req.config
    /\ last.req.config["directory"].v # last.entry.configs[last.req.alias].directory
    /\ RegistryEmpty

\* C8 as stated: every failing Init made while instances are registered
\* carries a rolled-back count equal to the number registered on entry.
C8_EveryFailureCarriesCount ==
    (InitFailed /\ HadInstances) =>
        /\ StatesRolledBack(last.status)
        /\ RolledBackCount(last.status) = ToString(Len(last.entry.initOrder))

\* C8 amended: a failing Init that rolls back states a count equal to the
\* number of instances registered on entry, and every failing Init made
\* while instances are registered carries such a count, except a
\* duplicate-directory failure, which rolls nothing back and states none.
C8_CountExceptDuplicateDirectory ==
    /\ (InitFailed /\ Reg # last.entry) =>
           /\ StatesRolledBack(last.status)
           /\ RolledBackCount(last.status) = ToString(Len(last.entry.initOrder))
    /\ (InitFailed /\ HadInstances /\ last.status.fmt # DuplicateDirectoryFmt) =>
           /\ StatesRolledBack(last.status)
           /\ RolledBackCount(last.status) = ToString(Len(last.entry.initOrder))
    /\ DuplicateDirectoryFailure =>
           /\ ~StatesRolledBack(last.status)
           /\ Reg = last.entry

\* C8 witness: a failing Init rolled back three instances and says so.
C8_Witness ==
    /\ InitFailed
    /\ Len(last.entry.initOrder) = 3
    /\ RegistryEmpty
    /\ StatesRolledBack(last.status)
    /\ RolledBackCount(last.status) = "3"

\* a registry r in which no commit and no rollback is half applied
Whole(r) ==
    /\ DOMAIN r.configs = {r.initOrder[i] : i \in 1..Len(r.initOrder)}
    /\ \A i, j \in 1..Len(r.initOrder) : i # j => r.initOrder[i] # r.initOrder[j]
    /\ DOMAIN r.directoryRegistry = {r.configs[a].directory : a \in DOMAIN r.configs}
    /\ \A a \in DOMAIN r.configs : r.directoryRegistry[r.configs[a].directory] = a

\* the client is between Lock's return and Unlock
InWriterBody(p) ==
    pc[p].at \in {"Validate", "CommitConfigs", "CommitDirectory", "CommitOrder",
                  "Rollback", "ClearConfigs", "ClearDirectories", "ClearOrder", "Unlock"}

\* the client is between RLock's return and RUnlock
InReaderBody(p) == pc[p].at \in {"Read", "RUnlock"}

\* C9: under every interleaving, while an Init or a Shutdown is in its body
\* no other call is in its body, and the registry a Fetch, Info or Health
\* sees while it holds the shared lock, and the one it has read, is whole.
C9_WritersExclusive ==
    /\ \A p \in Procs :
           InWriterBody(p) =>
               \A q \in Procs \ {p} : ~InWriterBody(q) /\ ~InReaderBody(q)
    /\ \A p \in Procs : InReaderBody(p) => Whole(Reg)
    /\ \A p \in Procs : pc[p].at = "RUnlock" => Whole(pc[p].target)

\* C9 witness: an Init has rolled back one of two instances and not yet the
\* other, while a Fetch waits for the shared lock.
C9_Witness ==
    \E p, q \in Procs :
        /\ pc[p].op = "Init" /\ pc[p].at = "Rollback" /\ pc[p].i = 1
        /\ Cardinality(DOMAIN configs) = 1 /\ Len(initOrder) = 2
        /\ ~Whole(Reg)
        /\ pc[q].op = "Fetch" /\ pc[q].at = "RLock"

\* C10: Shutdown always succeeds and leaves configs, directoryRegistry and
\* initOrder empty, whatever the registry held.
C10_ShutdownEmpties ==
    last.op = "Shutdown" => (last.status.code = "OK" /\ RegistryEmpty)

\* C10 witness: Shutdown returned after being called with two instances
\* registered.
C10_Witness ==
    /\ last.op = "Shutdown"
    /\ Len(last.entry.initOrder) = 2
    /\ last.status.code = "OK"
    /\ RegistryEmpty

\* the last call returned the status, and left the registry, of outcome r
ReturnedAs(r) == last.status = r.status /\ Reg = r.reg

\* the Init that has returned directly followed a Shutdown and reuses an
\* alias or a directory that was registered when that Shutdown was called
ReusesAfterShutdown ==
    /\ InitReturned
    /\ \/ last.req.alias \in last.before.aliases
       \/ RequestedCanonical(last.req, last.fault) \in last.before.directories

\* C11: an Init that follows a Shutdown and reuses an alias or a directory
\* registered before it returns the status, and leaves the registry, that
\* the same request gives on a newly constructed service.
C11_ReuseAfterShutdownAsFresh ==
    ReusesAfterShutdown => ReturnedAs(InitCall(EmptyRegistry, last.req, last.fault))

\* C11 witness: after a Shutdown of a registry holding the alias and the
\* directory, an Init with both has succeeded.
C11_Witness ==
    /\ InitReturned
    /\ last.req.alias \in last.before.aliases
    /\ RequestedCanonical(last.req, last.fault) \in last.before.directories
    /\ last.status.code = "OK"
    /\ DOMAIN configs = {last.req.alias}

\* C12: Health returns no error, and its status is OK exactly when an
\* instance is registered as it reads the registry, DEGRADED otherwise.
C12_HealthReportsRegistered ==
    last.op = "Health" =>
        /\ last.status.code = "OK"
        /\ last.value.status \in {"STATUS_OK", "STATUS_DEGRADED"}
        /\ last.value.status = "STATUS_OK" <=> Len(last.entry.initOrder) > 0
        /\ Reg = last.entry

\* C12 witness: Health has answered OK with exactly one instance registered.
C12_Witness ==
    /\ last.op = "Health"
    /\ last.value.status = "STATUS_OK"
    /\ Len(initOrder) = 1

FetchReturned == last.op = "Fetch"

\* the path of the last Fetch passes the validation gate
ValidPath == Len(last.path) > 0 /\ last.path[1] # ""

\* C13: a Fetch with an empty path, or with an empty first segment, fails
\* with InvalidArgument in every registry state, the empty one included,
\* and leaves the registry as it was.
C13_ValidationFirst ==
    (FetchReturned /\ ~ValidPath) =>
        /\ last.status.code = "InvalidArgument"
        /\ Reg = last.entry

\* C13 witness: on the empty registry a Fetch whose first segment is empty,
\* followed by further segments, has been refused as invalid.
C13_Witness ==
    /\ FetchReturned
    /\ Len(last.path) > 1 /\ last.path[1] = ""
    /\ last.entry = EmptyRegistry
    /\ last.status.code = "InvalidArgument"

\* keys lead from doc to a value: every key but the last names a map entry
RECURSIVE Defined(_, _)
Defined(doc, keys) ==
    \/ Len(keys) = 0
    \/ /\ IsMap(doc)
       /\ Head(keys) \in DOMAIN doc.v
       /\ Defined(doc.v[Head(keys)], Tail(keys))

\* the value keys lead to
RECURSIVE ValueAt(_, _)
ValueAt(doc, keys) ==
    IF Len(keys) = 0 THEN doc ELSE ValueAt(doc.v[Head(keys)], Tail(keys))

\* a response value: a map as it is, anything else under "value"
Wrapped(v) == IF v.t = "map" THEN v ELSE [t |-> "map", v |-> [k \in {"value"} |-> v]]

\* the file of instance cfg that answers to the name file can be parsed
Parses(cfg, file) ==
    last.fault # "parse" /\ AbsOf(cfg.cslFiles[file]) \in DOMAIN Documents

DocumentOf(cfg, file) == Documents[AbsOf(cfg.cslFiles[file])]

\* the last Fetch answered from instance cfg, with file as the filename and
\* keys as the nested path: NotFound naming file and the instance when the
\* instance has no such file, Internal when the file does not parse, the
\* value at keys when keys lead to one, a failure otherwise
FetchedFrom(cfg, file, keys) ==
    IF file \notin DOMAIN cfg.cslFiles
    THEN last.status.code = "NotFound" /\ last.status.args = <<file, cfg.alias>>
    ELSE IF ~Parses(cfg, file)
    THEN last.status.code = "Internal" /\ last.status.args[1] = cfg.cslFiles[file]
    ELSE IF Defined(DocumentOf(cfg, file), keys)
    THEN /\ last.status.code = "OK"
         /\ last.value = Wrapped(ValueAt(DocumentOf(cfg, file), keys))
    ELSE last.status.code \in {"NotFound", "InvalidArgument"}

\* the segments of the last path from index i on
PathFrom(i) == SubSeq(last.path, i, Len(last.path))

\* the first segment of the last Fetch is an alias registered on its entry
FirstIsAlias == ValidPath /\ last.path[1] \in DOMAIN last.entry.configs

\* C14: when path[0] is a registered alias, however many instances there
\* are, Fetch answers from that alias's instance with path[1] as the
\* filename and the segments from path[2] on as the nested path; a path of
\* length 1 is refused as InvalidArgument "path must contain at least
\* [alias, filename]".
C14_ExplicitMode ==
    (FetchReturned /\ FirstIsAlias) =>
        IF Len(last.path) = 1
        THEN /\ last.status.code = "InvalidArgument"
             /\ last.status.fmt = "path must contain at least [alias, filename]"
        ELSE FetchedFrom(last.entry.configs[last.path[1]], last.path[2], PathFrom(3))

\* C14 witness: with two instances registered, a Fetch of alias, file, and
\* two nested keys has returned the name held by that instance's file; the
\* filename is itself the alias of the other instance.
C14_Witness ==
    /\ FetchReturned /\ FirstIsAlias
    /\ Cardinality(DOMAIN last.entry.configs) = 2
    /\ Len(last.path) = 4
    /\ last.path[2] \in DOMAIN last.entry.configs /\ last.path[2] # last.path[1]
    /\ last.status.code = "OK"
    /\ last.value = Wrapped(Str("alpha"))

\* the number of instances registered when the last call entered
InstancesOnEntry == Len(last.entry.initOrder)

\* C15: when exactly one instance is registered and path[0] is not its
\* alias, Fetch answers from that instance with path[0] as the filename and
\* the segments from path[1] on as the nested path.
C15_ImplicitMode ==
    (FetchReturned /\ ValidPath /\ ~FirstIsAlias /\ InstancesOnEntry = 1) =>
        FetchedFrom(last.entry.configs[last.entry.initOrder[1]], last.path[1], PathFrom(2))

\* C15 witness: with one instance registered under another name, the Fetch
\* of file a, key app, key name has returned the scalar under "value".
C15_Witness ==
    /\ FetchReturned
    /\ InstancesOnEntry = 1
    /\ last.path = <<"a", "app", "name">>
    /\ ~FirstIsAlias
    /\ last.status.code = "OK"
    /\ last.value = Map([k \in {"value"} |-> Str("alpha")])

\* C16: with no instance registered, a Fetch whose path passes validation
\* fails with FailedPrecondition and leaves the registry empty.
C16_EmptyRegistryFailedPrecondition ==
    (FetchReturned /\ ValidPath /\ InstancesOnEntry = 0) =>
        /\ last.status.code = "FailedPrecondition"
        /\ last.status.fmt = "no provider instances initialized"
        /\ RegistryEmpty

\* C16 witness: a Fetch of three segments on the empty registry has failed
\* with FailedPrecondition.
C16_Witness ==
    /\ FetchReturned
    /\ Len(last.path) = 3 /\ ValidPath
    /\ last.entry = EmptyRegistry
    /\ last.status.code = "FailedPrecondition"

\* some registered instance has a file of this name
SomeInstanceHasFile(file) ==
    \E a \in DOMAIN last.entry.configs : file \in DOMAIN last.entry.configs[a].cslFiles

\* C17: with more than one instance registered, a Fetch whose first segment
\* is no registered alias fails with NotFound for that instance name, also
\* when the segment is the name of a file of some instance.
C17_UnknownAliasNotFound ==
    (FetchReturned /\ ValidPath /\ ~FirstIsAlias /\ InstancesOnEntry > 1) =>
        /\ last.status.code = "NotFound"
        /\ last.status.fmt = NotFoundInstanceFmt
        /\ last.status.args = <<last.path[1]>>

\* C17 witness: two instances are registered, the first segment is no alias
\* but names a file that an instance has, and the Fetch is NotFound.
C17_Witness ==
    /\ FetchReturned /\ ValidPath /\ ~FirstIsAlias
    /\ InstancesOnEntry = 2
    /\ SomeInstanceHasFile(last.path[1])
    /\ Len(last.path) > 1
    /\ last.status.code = "NotFound"

\* the mode that the aliases registered and the first segment designate
DesignatedMode ==
    IF FirstIsAlias THEN "explicit"
    ELSE IF InstancesOnEntry = 0 THEN "empty"
    ELSE IF InstancesOnEntry = 1 THEN "implicit"
    ELSE "ambiguous"

\* the response of the last Fetch is the outcome of mode m
Took(m) ==
    CASE m = "explicit" ->
             /\ FirstIsAlias
             /\ IF Len(last.path) = 1
                THEN last.status.fmt = "path must contain at least [alias, filename]"
                ELSE FetchedFrom(last.entry.configs[last.path[1]], last.path[2], PathFrom(3))
      [] m = "implicit" ->
             /\ InstancesOnEntry = 1
             /\ last.status.fmt \notin {NotFoundInstanceFmt, "no provider instances initialized",
                                        "path must contain at least [alias, filename]"}
             /\ FetchedFrom(last.entry.configs[last.entry.initOrder[1]], last.path[1], PathFrom(2))
      [] m = "ambiguous" ->
             last.status.code = "NotFound" /\ last.status.fmt = NotFoundInstanceFmt
      [] m = "empty" ->
             /\ last.status.code = "FailedPrecondition"
             /\ last.status.fmt = "no provider instances initialized"

\* C18: for every registry and every path that passes validation, the
\* response of Fetch is the outcome of the one mode that (is path[0] a
\* registered alias, number of instances) designate.
C18_ModeDetectionTotal ==
    (FetchReturned /\ ValidPath) =>
        /\ DesignatedMode \in {"explicit", "implicit", "ambiguous", "empty"}
        /\ Took(DesignatedMode)

\* C18 witness: the sole instance is addressed by its alias, and the Fetch
\* is answered in explicit mode although a file of that name exists.
C18_Witness ==
    /\ FetchReturned /\ FirstIsAlias
    /\ InstancesOnEntry = 1
    /\ Len(last.path) = 1
    /\ SomeInstanceHasFile(last.path[1])
    /\ Took("explicit")

\* the instance the last Fetch addresses by its first segment
Addressed == last.entry.configs[last.path[1]]

\* C19: in explicit mode the filename is looked up in the addressed
\* instance's file index only: a name absent from it is NotFound naming the
\* file and that alias, whatever files the other instances have, and a name
\* in it is answered from the file of that name in the instance's directory.
C19_InstanceIsolation ==
    (FetchReturned /\ FirstIsAlias /\ Len(last.path) >= 2) =>
        IF last.path[2] \notin DOMAIN Addressed.cslFiles
        THEN /\ last.status.code = "NotFound"
             /\ last.status.fmt = "file %q not found in provider instance %q"
             /\ last.status.args = <<last.path[2], last.path[1]>>
        ELSE /\ Addressed.cslFiles[last.path[2]]
                    = Join(Addressed.directory, last.path[2] \o ".csl")
             /\ (Parses(Addressed, last.path[2]) /\ Len(last.path) = 2) =>
                    /\ last.status.code = "OK"
                    /\ last.value = DocumentOf(Addressed, last.path[2])

\* C19 witness: two instances are registered, the file asked of the
\* addressed one exists only in the other, and the Fetch is NotFound.
C19_Witness ==
    /\ FetchReturned /\ FirstIsAlias /\ Len(last.path) >= 2
    /\ InstancesOnEntry = 2
    /\ last.path[2] \notin DOMAIN Addressed.cslFiles
    /\ SomeInstanceHasFile(last.path[2])
    /\ last.status.code = "NotFound"

\* the last Fetch was in explicit mode with a filename, or in implicit mode
Targeted ==
    /\ FetchReturned /\ ValidPath
    /\ \/ DesignatedMode = "explicit" /\ Len(last.path) >= 2
       \/ DesignatedMode = "implicit"

\* its instance, its filename segment and its nested segments
Target ==
    IF FirstIsAlias THEN Addressed ELSE last.entry.configs[last.entry.initOrder[1]]

FileName == IF FirstIsAlias THEN last.path[2] ELSE last.path[1]

Nested == IF FirstIsAlias THEN PathFrom(3) ELSE PathFrom(2)

\* the last Fetch found its file and parsed it: navigation starts
Navigated ==
    /\ Targeted
    /\ FileName \in DOMAIN Target.cslFiles
    /\ Parses(Target, FileName)

Document == DocumentOf(Target, FileName)

\* the first n nested segments
Upto(n) == SubSeq(Nested, 1, n)

\* the last nested segment is the wildcard and the segments before it lead
\* to a value
TrailingWildcard ==
    /\ Navigated
    /\ Len(Nested) >= 1 /\ Nested[Len(Nested)] = "*"
    /\ Defined(Document, Upto(Len(Nested) - 1))

BeforeWildcard == ValueAt(Document, Upto(Len(Nested) - 1))

\* C21: a trailing wildcard on a value that is not a map is refused with
\* InvalidArgument: the value is not returned and NotFound is not reported.
C21_TrailingWildcardOnNonMap ==
    (TrailingWildcard /\ ~IsMap(BeforeWildcard)) =>
        last.status.code = "InvalidArgument"

\* C21 witness: in explicit mode the Fetch of alias, file, app, name, "*"
\* has been refused, name being the scalar "alpha".
C21_Witness ==
    /\ TrailingWildcard
    /\ FirstIsAlias /\ Len(last.path) = 5
    /\ BeforeWildcard = Str("alpha")
    /\ last.status.code = "InvalidArgument"

\* C22 as stated: a trailing wildcard on a map returns that map as it is.
C22_TrailingWildcardReturnsMap ==
    (TrailingWildcard /\ IsMap(BeforeWildcard)) =>
        /\ last.status.code = "OK"
        /\ last.value = BeforeWildcard

\* after n nested segments the value reached is not a map, and a segment remains
StuckAt(n) ==
    /\ n < Len(Nested)
    /\ Defined(Document, Upto(n))
    /\ ~IsMap(ValueAt(Document, Upto(n)))

\* the 0-based index in the path of nested segment n + 1
IndexInPath(n) == Len(last.path) - Len(Nested) + n

\* C23: when a nested segment remains and the value reached is a scalar or
\* a list, Fetch fails with InvalidArgument naming the index of that
\* segment: no value is returned and NotFound is not reported.
C23_NavigationSafety ==
    Navigated =>
        \A n \in 0..Len(Nested) :
            StuckAt(n) =>
                /\ last.status.code = "InvalidArgument"
                /\ last.status.fmt
                       = "cannot navigate to path %v: element at index %d is not a map"
                /\ last.status.args[2] = ToString(IndexInPath(n))

\* C23 witness: the Fetch went through app to the list tags and was refused
\* at the segment after it.
C23_Witness ==
    /\ Navigated
    /\ Len(Nested) = 3 /\ StuckAt(2)
    /\ ValueAt(Document, Upto(2)).t = "list"
    /\ last.status.code = "InvalidArgument"

\* nested segment n is the first that the map reached lacks
MissingAt(n) ==
    /\ Defined(Document, Upto(n - 1))
    /\ IsMap(ValueAt(Document, Upto(n - 1)))
    /\ Nested[n] \notin DOMAIN ValueAt(Document, Upto(n - 1)).v

\* C24: when the map reached lacks the next nested segment, Fetch fails
\* with NotFound naming that segment, the file basename and the alias of
\* the instance; it is the first such segment of the path.
C24_MissingKeyNotFound ==
    Navigated =>
        \A n \in 1..Len(Nested) :
            MissingAt(n) =>
                /\ last.status.code = "NotFound"
                /\ last.status.fmt
                       = "path element %q not found in file %q (provider instance %q)"
                /\ last.status.args = <<Nested[n], FileName, Target.alias>>

\* C24 witness: the missing key is followed by a further segment, and the
\* error names the missing key.
C24_Witness ==
    /\ Navigated
    /\ Len(Nested) = 3 /\ MissingAt(2)
    /\ last.status.code = "NotFound"
    /\ last.status.args[1] = Nested[2]

\* C25: every successful Fetch returns a map: the value reached when it is
\* a map, and the single-entry map from "value" to it when it is a scalar
\* or a list.
C25_ResultShaping ==
    (FetchReturned /\ last.status.code = "OK") =>
        /\ Navigated
        /\ Defined(Document, Nested)
        /\ last.value.t = "map"
        /\ IF IsMap(ValueAt(Document, Nested))
           THEN last.value = ValueAt(Document, Nested)
           ELSE /\ DOMAIN last.value.v = {"value"}
                /\ last.value.v["value"] = ValueAt(Document, Nested)

\* C25 witness: a Fetch that reached the list tags has returned it under
\* the key "value".
C25_Witness ==
    /\ FetchReturned /\ last.status.code = "OK"
    /\ Navigated
    /\ Defined(Document, Nested)
    /\ ValueAt(Document, Nested).t = "list"
    /\ ValueAt(Document, Nested) = List(<<Str("x"), Str("y")>>)
    /\ DOMAIN last.value.v = {"value"}
    /\ last.value.v["value"] = List(<<Str("x"), Str("y")>>)

\* C26: Fetch, Info and Health leave configs, directoryRegistry and
\* initOrder as they found them, whether they succeed or fail.
C26_ReadsLeaveRegistry ==
    last.op \in {"Fetch", "Info", "Health"} => Reg = last.entry

\* C26 witness: a Fetch has failed against two registered instances, which
\* are still registered.
C26_Witness ==
    /\ FetchReturned
    /\ last.status.code # "OK"
    /\ Len(last.entry.initOrder) = 2
    /\ Reg = last.entry

\* the Fetch of client p has its result and still holds the shared lock
FetchDone(p) == pc[p].op = "Fetch" /\ pc[p].at = "RUnlock"

\* C27: under every interleaving, however many Fetches are in progress,
\* the result each Fetch holds when it is about to release the shared lock
\* is the result of that Fetch alone on the registry as it is, and the
\* registry is the one the Fetch read.
C27_ConcurrentFetch ==
    \A p \in Procs :
        FetchDone(p) =>
            /\ Reg = pc[p].target
            /\ pc[p].status = FetchCall(Reg, pc[p].path, "none").status
            /\ pc[p].value = FetchCall(Reg, pc[p].path, "none").value

\* C27 witness: two Fetches of different paths hold the shared lock together
\* with their results, one a value and one an error.
C27_Witness ==
    \E p, q \in Procs :
        /\ p # q
        /\ FetchDone(p) /\ FetchDone(q)
        /\ mu.readers = {p, q}
        /\ pc[p].path # pc[q].path
        /\ pc[p].status.code = "OK"
        /\ pc[q].status.code # "OK"

\* client p holds the lock, exclusively or shared
HoldsLock(p) == mu.w = p \/ p \in mu.readers

\* C28: a call that has returned holds no lock, whichever way it returned,
\* and under a fair scheduler every call that was invoked returns, however
\* the other clients keep calling.
C28_EveryCallReturns ==
    /\ [](\A p \in Procs : pc[p].at \in {"idle", "Return"} => ~HoldsLock(p))
    /\ \A p \in Procs : (pc[p].at # "idle") ~> (pc[p].at = "idle")

\* C28 witness: an Init has failed and released the lock on its way out,
\* and a Fetch that arrived meanwhile is inside the shared lock.
C28_Witness ==
    \E p, q \in Procs :
        /\ pc[p].op = "Init" /\ pc[p].at = "Return"
        /\ pc[p].status.code # "OK"
        /\ ~HoldsLock(p)
        /\ pc[q].op = "Fetch" /\ pc[q].at = "Read"
        /\ q \in mu.readers

\* exactly one instance was registered when the last Fetch entered
SoleOnEntry == FetchReturned /\ Cardinality(DOMAIN last.entry.configs) = 1

\* the single-instance service initialized with the alias and the
\* directory of that instance
SingleService ==
    InitSingle(NoConfig,
               [alias |-> SoleInstance(last.entry.configs).alias,
                config |-> [k \in {"directory"} |->
                               StringValue(SoleInstance(last.entry.configs).directory)],
                sourceFilePath |-> ""],
               "none").config

\* the outcome r of the single-instance Fetch is the outcome of the last
\* Fetch: the same status code, and the same value when it is OK
SameOutcome(r) ==
    /\ r.status.code = last.status.code
    /\ r.status.code = "OK" => r.value = last.value

\* C29 as stated: with exactly one instance registered, Fetch returns for
\* every path the outcome of the single-instance Fetch on the same alias
\* and directory.
C29_SingleInstanceEveryPath ==
    SoleOnEntry => SameOutcome(FetchSingle(SingleService, last.path, last.fault))

\* C29, amended: with exactly one instance registered, Fetch returns the
\* outcome of the single-instance Fetch on the same alias and directory
\* for every path whose first segment is not the registered alias.
C29_SingleInstanceUnlessAliasFirst ==
    (SoleOnEntry /\ ~FirstIsAlias) =>
        SameOutcome(FetchSingle(SingleService, last.path, last.fault))

\* C29 witness: with one instance, a Fetch whose first segment is a
\* filename has returned the value the single-instance service returns.
C29_Witness ==
    /\ SoleOnEntry /\ ~FirstIsAlias
    /\ Len(last.path) >= 2
    /\ SingleService.initialized
    /\ last.status.code = "OK"
    /\ FetchSingle(SingleService, last.path, last.fault).status.code = "OK"
    /\ FetchSingle(SingleService, last.path, last.fault).value = last.value

\* C30: Info answers OK with the version and the type given at
\* construction, whatever the registry holds.
C30_InfoConstant ==
    last.op = "Info" =>
        /\ last.status = OkStatus
        /\ last.value = [version |-> Version, type |-> ProviderType]

\* C30 witness: Info has answered while no instance was registered.
C30_Witness ==
    /\ last.op = "Info"
    /\ last.entry = EmptyRegistry
    /\ last.status = OkStatus
    /\ last.value = [version |-> "0.2.1", type |-> "file"]

\* the kind the first failing check of the list gives once the directory is
\* known to canonicalize to canon: owned by another alias, or not enumerable
KindAtCanonical(canon, fault) ==
    IF canon.err THEN "Internal"
    ELSE IF canon.path \in DOMAIN last.entry.directoryRegistry THEN "FailedPrecondition"
    ELSE IF enumerateCSLFiles(canon.path, fault).err # "" THEN "Internal"
    ELSE ""

\* ... once os.Stat of the resolved path absPath returned info; a Stat that
\* fails otherwise is not in the list
KindAtStat(absPath, info, fault) ==
    IF info.err = "notexist" THEN "NotFound"
    ELSE IF info.err # "none" THEN ""
    ELSE IF ~info.isDir THEN "InvalidArgument"
    ELSE KindAtCanonical(canonicalizePath(absPath, fault), fault)

KindAtAbs(abs, fault) ==
    IF abs.err THEN "" ELSE KindAtStat(abs.path, Stat(abs.path, fault), fault)

\* the kind the list of checks gives the request req: "" when no check of
\* the list is the first to fail
ListedKind(req, fault) ==
    IF req.alias = "" THEN "InvalidArgument"
    ELSE IF req.alias \in DOMAIN last.entry.configs THEN "FailedPrecondition"
    ELSE IF "directory" \notin DOMAIN req.config THEN "InvalidArgument"
    ELSE IF req.config["directory"].t # "string" THEN "InvalidArgument"
    ELSE KindAtAbs(ResolveAbsPath(req.config["directory"].v, req.sourceFilePath, fault),
                   fault)

\* the request with every config key but 'directory' removed
DirectoryOnly(req) ==
    [req EXCEPT !.config = [k \in (DOMAIN req.config) \cap {"directory"} |-> req.config[k]]]

\* when the list gives a kind, the last call returned it
KindDecides(kind) == kind # "" => last.status.code = kind

\* C31: Init applies its checks in the listed order and the first that
\* fails gives the error kind; a config key other than 'directory' changes
\* neither the status nor the registry.
C31_FirstFailingCheckDecides ==
    InitReturned =>
        /\ KindDecides(ListedKind(last.req, last.fault))
        /\ DOMAIN last.req.config # DOMAIN DirectoryOnly(last.req).config
               => ReturnedAs(InitCall(last.entry, DirectoryOnly(last.req), last.fault))

\* C31 witness: an Init named a registered alias and a directory that does
\* not exist, and failed as a duplicate alias, not as NotFound.
C31_Witness ==
    /\ InitReturned
    /\ last.req.alias \in DOMAIN last.entry.configs
    /\ "directory" \in DOMAIN last.req.config
    /\ last.req.config["directory"] = StringValue("/w/nx")
    /\ Stat("/w/nx", last.fault).err = "notexist"
    /\ last.status.code = "FailedPrecondition"

\* the entries directly inside the directory dir of the file system that
\* are files named *.csl
Eligible(dir) ==
    {i \in 1..Len(DirListing[dir]) :
        ~DirListing[dir][i].isDir /\ HasSuffix(DirListing[dir][i].name, ".csl")}

\* two eligible entries of dir have the same basename
SharedBasename(dir) ==
    \E i, j \in Eligible(dir) :
        /\ i # j
        /\ TrimSuffix(DirListing[dir][i].name, ".csl")
               = TrimSuffix(DirListing[dir][j].name, ".csl")

\* the last Init passed every check before the enumeration of canonical
EnumeratedAt(canonical) ==
    /\ InitReturned
    /\ last.req.alias # ""
    /\ last.req.alias \notin DOMAIN last.entry.configs
    /\ canonical # ""
    /\ canonical \notin DOMAIN last.entry.directoryRegistry

ReachedEnumeration == EnumeratedAt(RequestedCanonical(last.req, last.fault))

\* the enumeration of canonical cannot give an index
NoIndexAt(canonical) ==
    /\ EnumeratedAt(canonical)
    /\ \/ Eligible(PhysicalDir(canonical)) = {}
       \/ SharedBasename(PhysicalDir(canonical))

\* C32: an Init whose directory holds no eligible file, or two eligible
\* entries with one basename, fails with Internal at the enumeration and
\* its alias is not registered; no registered instance has an empty index.
C32_NoEmptyIndex ==
    /\ (InitReturned /\ NoIndexAt(RequestedCanonical(last.req, last.fault)))
       => /\ last.status.code = "Internal"
          /\ Contains(last.status.fmt, "failed to enumerate .csl files")
          /\ last.req.alias \notin DOMAIN configs
    /\ \A a \in DOMAIN configs : DOMAIN configs[a].cslFiles # {}

\* C32 witness: with an instance registered, an Init on a directory that
\* holds only a .txt file failed at the enumeration.
C32_Witness ==
    /\ ReachedEnumeration
    /\ HadInstances
    /\ last.fault = "none"
    /\ RequestedCanonical(last.req, last.fault) = "/w/e"
    /\ Eligible("/w/e") = {}
    /\ last.status.code = "Internal"
    /\ last.req.alias \notin DOMAIN configs

\* the index cslFiles is the index of the eligible entries of the
\* directory registered as canonical
IndexOf(canonical, cslFiles) ==
    /\ DOMAIN cslFiles
           = {TrimSuffix(DirListing[PhysicalDir(canonical)][i].name, ".csl") :
                 i \in Eligible(PhysicalDir(canonical))}
    /\ \A i \in Eligible(PhysicalDir(canonical)) :
           cslFiles[TrimSuffix(DirListing[PhysicalDir(canonical)][i].name, ".csl")]
               = canonical \o "/" \o DirListing[PhysicalDir(canonical)][i].name
    /\ Cardinality(DOMAIN cslFiles) = Cardinality(Eligible(PhysicalDir(canonical)))

\* C33: the index a successful Init stores has exactly one entry for each
\* file named *.csl directly inside the directory, keyed by the name
\* without the extension and mapped to the file's path inside the
\* canonical directory; other files, and subdirectories, are not in it.
C33_IndexIsEligibleFiles ==
    (InitReturned /\ last.status.code = "OK") =>
        IndexOf(configs[last.req.alias].directory, configs[last.req.alias].cslFiles)

\* C33 witness: an Init on the directory that holds a.csl, b.csl, n.txt
\* and the subdirectory s.csl has indexed a and b only.
C33_Witness ==
    /\ InitReturned /\ last.status.code = "OK"
    /\ configs[last.req.alias].directory = "/w/d1"
    /\ Len(DirListing["/w/d1"]) = 4
    /\ DOMAIN configs[last.req.alias].cslFiles = {"a", "b"}
    /\ configs[last.req.alias].cslFiles["a"] = "/w/d1/a.csl"

\* C34: an instance that is registered before and after a step is the same
\* instance: no Init, Fetch, Health, Info or Shutdown changes the alias,
\* the directory or the file index of an instance that stays registered.
C34_InstancesImmutable ==
    [][\A a \in DOMAIN configs :
           a \in DOMAIN configs' => configs'[a] = configs[a]]_vars

\* the instance a was registered when the last call entered and still is,
\* unchanged
Survives(a) ==
    /\ a \in DOMAIN last.entry.configs
    /\ a \in DOMAIN configs
    /\ configs[a] = last.entry.configs[a]
    /\ directoryRegistry[configs[a].directory] = a

\* C34 witness: an Init of another alias has succeeded beside a registered
\* instance, which is as it was.
C34_Witness ==
    /\ InitReturned /\ last.status.code = "OK"
    /\ HadInstances
    /\ \E a \in DOMAIN configs : a # last.req.alias /\ Survives(a)

\* C35: on an initialized service Fetch of the path [""] fails with
\* InvalidArgument and a message that contains "alias cannot be empty".
C35_EmptySegmentNamesAlias ==
    (FetchReturned /\ HadInstances /\ last.path = <<"">>) =>
        /\ last.status.code = "InvalidArgument"
        /\ Contains(last.status.fmt, "alias cannot be empty")

\* the last Init passed every check before the duplicate-directory check
\* and its directory, canonical, is registered under another alias
OwnedAt(canonical) ==
    /\ InitReturned
    /\ last.req.alias # ""
    /\ last.req.alias \notin DOMAIN last.entry.configs
    /\ canonical # ""
    /\ canonical \in DOMAIN last.entry.directoryRegistry

\* the registry is the registry on entry with one instance more
ExtendedByOne ==
    /\ Len(initOrder) = Len(last.entry.initOrder) + 1
    /\ SubSeq(initOrder, 1, Len(last.entry.initOrder)) = last.entry.initOrder
    /\ DOMAIN configs = DOMAIN last.entry.configs \cup {initOrder[Len(initOrder)]}
    /\ \A a \in DOMAIN last.entry.configs : configs[a] = last.entry.configs[a]
    /\ Cardinality(DOMAIN directoryRegistry)
           = Cardinality(DOMAIN last.entry.directoryRegistry) + 1

\* C36: a failing Init made while instances are registered leaves the
\* registry as it was exactly when the check that fails is the
\* duplicate-directory check, and empties it otherwise; after any call the
\* registry is as on entry, or holds one instance more, or is empty.
C36_UnchangedOnlyOnDuplicateDirectory ==
    /\ (InitFailed /\ HadInstances) =>
           /\ Reg = last.entry <=> OwnedAt(RequestedCanonical(last.req, last.fault))
           /\ Reg # last.entry => RegistryEmpty
    /\ last.op # "none" => (Reg = last.entry \/ ExtendedByOne \/ RegistryEmpty)

\* C36 witness: with two instances registered an Init failed at the
\* duplicate-directory check, and both instances are still registered.
C36_Witness ==
    /\ InitFailed
    /\ Len(last.entry.initOrder) = 2
    /\ OwnedAt(RequestedCanonical(last.req, last.fault))
    /\ Reg = last.entry
    /\ Len(initOrder) = 2

\* the last Fetch began with the alias of the only instance, which has a
\* file of that very name
AliasNamesFile ==
    /\ SoleOnEntry
    /\ FirstIsAlias
    /\ last.path[1] \in DOMAIN Addressed.cslFiles

\* C37: when the only instance has a file named like its alias A, the
\* first segment A is the alias: Fetch([A]) fails with InvalidArgument,
\* Fetch([A, k, ...]) is answered from file k, and so from file A only when
\* k is A.
C37_ExplicitPrecedence ==
    AliasNamesFile =>
        IF Len(last.path) = 1
        THEN last.status.code = "InvalidArgument"
        ELSE /\ FetchedFrom(Addressed, last.path[2], PathFrom(3))
             /\ last.path[2] \notin DOMAIN Addressed.cslFiles
                    => last.status.code = "NotFound"

\* C37 witness: the only instance is a, its directory holds a.csl, and
\* Fetch([a]) was refused.
C37_Witness ==
    /\ AliasNamesFile
    /\ last.path = <<"a">>
    /\ Addressed.cslFiles["a"] = "/w/d1/a.csl"
    /\ last.status.code = "InvalidArgument"

\* the last Init named an alias that was registered when it entered
DuplicateAliasFailure == InitReturned /\ last.req.alias \in DOMAIN last.entry.configs

\* C38: whenever configs holds an alias initOrder is not empty, so an Init
\* that names a registered alias always rolls back, reports a count of at
\* least 1, and never returns the error without the rollback.
C38_DuplicateAliasAlwaysRollsBack ==
    /\ DOMAIN configs # {} => Len(initOrder) > 0
    /\ DuplicateAliasFailure =>
           /\ Len(last.entry.initOrder) >= 1
           /\ last.status.fmt
                  = "alias %q: provider instance already initialized" \o RolledBackSuffix
           /\ RolledBackCount(last.status) = ToString(Len(last.entry.initOrder))
           /\ RolledBackCount(last.status) # "0"
           /\ RegistryEmpty

\* C38 witness: the alias of the only instance was submitted again and the
\* failure reports one instance rolled back.
C38_Witness ==
    /\ DuplicateAliasFailure
    /\ Len(last.entry.initOrder) = 1
    /\ StatesRolledBack(last.status)
    /\ RolledBackCount(last.status) = "1"
    /\ RegistryEmpty

\* this step is an Init that fails and rolls instances back
RollsBack == last'.op = "Init" /\ last'.status.code # "OK" /\ Reg' # Reg

\* this step is a Fetch with a valid path, or a Health
FetchesValid == last'.op = "Fetch" /\ Len(last'.path) > 0 /\ last'.path[1] # ""

\* C39: an Init that rolls back leaves the registry empty, so that a Fetch
\* of any alias registered before it would be FailedPrecondition; while the
\* registry is empty every Fetch with a valid path returns
\* FailedPrecondition and Health returns DEGRADED; and only a successful
\* Init ends that.
C39_UnfetchableAfterRollback ==
    [][/\ RollsBack =>
           /\ RegistryEmpty'
           /\ \A a \in DOMAIN configs :
                  FetchCall(Reg', <<a, "a">>, "none").status.code = "FailedPrecondition"
       /\ (RegistryEmpty /\ FetchesValid) => last'.status.code = "FailedPrecondition"
       /\ (RegistryEmpty /\ last'.op = "Health")
              => last'.value.status = "STATUS_DEGRADED"
       /\ (RegistryEmpty /\ ~RegistryEmpty')
              => (last'.op = "Init" /\ last'.status.code = "OK")]_vars

\* C39 witness: a failing Init has rolled back two instances that were not
\* its own; a Fetch of the first of them, which succeeded on entry, is now
\* FailedPrecondition, and Health is DEGRADED.
C39_Witness ==
    /\ InitFailed
    /\ Len(last.entry.initOrder) = 2
    /\ last.req.alias \notin DOMAIN last.entry.configs
    /\ RegistryEmpty
    /\ "a" \in DOMAIN last.entry.configs[last.entry.initOrder[1]].cslFiles
    /\ FetchCall(last.entry, <<last.entry.initOrder[1], "a">>, "none").status.code = "OK"
    /\ FetchCall(Reg, <<last.entry.initOrder[1], "a">>, "none").status.code
           = "FailedPrecondition"
    /\ HealthCall(Reg).value.status = "STATUS_DEGRADED"

\* the third identical Init, with outcome third, succeeds and registers
\* the instance of the first and nothing else
ThirdRestores(third) ==
    /\ third.status.code = "OK"
    /\ DOMAIN third.reg.configs = {last.req.alias}
    /\ third.reg.configs[last.req.alias] = configs[last.req.alias]
    /\ third.reg.initOrder = <<last.req.alias>>
    /\ InitCall(third.reg, last.req, "none").status.code = "FailedPrecondition"
    /\ InitCall(third.reg, last.req, "none").reg = EmptyRegistry

\* the second identical Init, with outcome second, fails as a duplicate
\* alias and empties the registry
SecondEmpties(second) ==
    /\ second.status.code = "FailedPrecondition"
    /\ Contains(second.status.fmt, "already initialized")
    /\ second.reg = EmptyRegistry
    /\ ThirdRestores(InitCall(second.reg, last.req, "none"))

\* C40: when an Init has succeeded, the identical request submitted again
\* fails with FailedPrecondition and empties the registry, a third time it
\* succeeds and leaves exactly its instance, a fourth time it fails again.
C40_InitAlternates ==
    (InitReturned /\ last.status.code = "OK") =>
        SecondEmpties(InitCall(Reg, last.req, "none"))

\* the last Init repeated the request of the only registered instance
Resubmitted ==
    /\ DuplicateAliasFailure
    /\ DOMAIN last.entry.configs = {last.req.alias}
    /\ RequestedCanonical(last.req, last.fault)
           = last.entry.configs[last.req.alias].directory

\* C40 witness: the request of the only instance was submitted again; the
\* call failed, the registry is empty, and the same request would now
\* succeed.
C40_Witness ==
    /\ Resubmitted
    /\ last.status.code = "FailedPrecondition"
    /\ RegistryEmpty
    /\ InitCall(Reg, last.req, "none").status.code = "OK"

(***************************************************************************)
(* The wildcard of the specification: the merged document of an instance.  *)
(***************************************************************************)
\* the reserved filename segment
Wildcard == "*"

\* byte order of the characters of basenames
Alphabet == "0123456789abcdefghijklmnopqrstuvwxyz"

RankOf(c) == CHOOSE i \in 1..Len(Alphabet) : SubSeq(Alphabet, i, i) = c

\* x sorts before y, lexicographically
RECURSIVE Less(_, _)
Less(x, y) ==
    IF Len(x) = 0 THEN Len(y) > 0
    ELSE IF Len(y) = 0 THEN FALSE
    ELSE IF SubSeq(x, 1, 1) = SubSeq(y, 1, 1)
    THEN Less(SubSeq(x, 2, Len(x)), SubSeq(y, 2, Len(y)))
    ELSE RankOf(SubSeq(x, 1, 1)) < RankOf(SubSeq(y, 1, 1))

\* the names of a set in ascending order
RECURSIVE Ascending(_)
Ascending(names) ==
    IF names = {} THEN << >>
    ELSE LET first == CHOOSE x \in names : \A y \in names \ {x} : Less(x, y)
         IN  <<first>> \o Ascending(names \ {first})

\* deep merge: maps merge key by key, otherwise the later value wins
RECURSIVE DeepMerge(_, _)
DeepMerge(x, y) ==
    IF IsMap(x) /\ IsMap(y)
    THEN Map([k \in DOMAIN x.v \cup DOMAIN y.v |->
                 IF k \in DOMAIN x.v /\ k \in DOMAIN y.v THEN DeepMerge(x.v[k], y.v[k])
                 ELSE IF k \in DOMAIN y.v THEN y.v[k]
                 ELSE x.v[k]])
    ELSE y

\* the fold of the documents of the files named, left to right
RECURSIVE MergeFrom(_, _, _)
MergeFrom(cfg, names, acc) ==
    IF Len(names) = 0 THEN acc
    ELSE MergeFrom(cfg, Tail(names), DeepMerge(acc, DocumentOf(cfg, Head(names))))

MergedDocument(cfg) == MergeFrom(cfg, Ascending(DOMAIN cfg.cslFiles), Map(EmptyMap))

AllParse(cfg) == \A f \in DOMAIN cfg.cslFiles : Parses(cfg, f)

\* the last Fetch answered with the value at keys of the merged document
MergedFrom(cfg, keys) ==
    (AllParse(cfg) /\ Defined(MergedDocument(cfg), keys)) =>
        /\ last.status.code = "OK"
        /\ last.value = Wrapped(ValueAt(MergedDocument(cfg), keys))

\* C20 as stated: when the filename segment is the wildcard, Fetch returns
\* the deep merge of all files of the target instance, folded in ascending
\* order of their basenames.
C20_WildcardMerges ==
    (FetchReturned /\ ValidPath) =>
        /\ (DesignatedMode = "explicit" /\ Len(last.path) >= 2 /\ last.path[2] = Wildcard)
               => MergedFrom(Addressed, PathFrom(3))
        /\ (DesignatedMode = "implicit" /\ last.path[1] = Wildcard)
               => MergedFrom(last.entry.configs[last.entry.initOrder[1]], PathFrom(2))

=============================================================================
